---- MODULE Spec2Model ----
(***************************************************************************)
(* Model of the analysis orchestration of the radar front end:             *)
(*   - App.tsx: ticker resolution, handleTickerSubmit, the status-map      *)
(*     merge and the polling effect;                                       *)
(*   - services/financialService.ts: status mapping and the projection;    *)
(*   - services/llm/index.ts: the provider fallback chain;                 *)
(*   - components/ForecastChart.tsx: the forecast request of the chart.    *)
(* Strings that the code inspects character by character (ticker input,    *)
(* directory entries) are sequences of one-character strings.              *)
(*                                                                         *)
(* Assumptions.  A batch of React state updates, the render that follows   *)
(* and the effect cleanups and re-runs it causes are one step.  A job of   *)
(* the Analysis Job Store goes from pending to completed or failed and     *)
(* never back.  Spec holds the quote and company requests successful;      *)
(* the news request may return no article.                                 *)
(***************************************************************************)
EXTENDS Integers, Sequences, FiniteSets, Bags, TLC

\* ------------------------------------------------------------------------
\* Bounds of the model
\* ------------------------------------------------------------------------
\* number of handleTickerSubmit calls that resolve a ticker
MaxSubmits == 2
\* status requests in flight (sent and not yet settled) at one time
MaxPolls == 2
\* length of the update lists given to mergeStatusMap in SpecMerge
MaxUpdates == 2

\* ------------------------------------------------------------------------
\* Characters and strings
\* ------------------------------------------------------------------------
LowerChars == <<"a", "b", "x", "m", "i", "s">>
UpperChars == <<"A", "B", "X", "M", "I", "S">>

IndexIn(c, chars) ==
    IF \E i \in DOMAIN chars : chars[i] = c
    THEN CHOOSE i \in DOMAIN chars : chars[i] = c
    ELSE 0

toUpperChar(c) ==
    IF IndexIn(c, LowerChars) # 0 THEN UpperChars[IndexIn(c, LowerChars)] ELSE c

toLowerChar(c) ==
    IF IndexIn(c, UpperChars) # 0 THEN LowerChars[IndexIn(c, UpperChars)] ELSE c

toUpperCase(s) == [i \in DOMAIN s |-> toUpperChar(s[i])]

toLowerCase(s) == [i \in DOMAIN s |-> toLowerChar(s[i])]

RECURSIVE trimStart(_)
trimStart(s) ==
    IF s # <<>> /\ Head(s) = " " THEN trimStart(Tail(s)) ELSE s

RECURSIVE trimEnd(_)
trimEnd(s) ==
    IF s # <<>> /\ s[Len(s)] = " " THEN trimEnd(SubSeq(s, 1, Len(s) - 1)) ELSE s

trim(s) == trimEnd(trimStart(s))

\* String.prototype.includes
includes(s, sub) ==
    \E i \in 0..(Len(s) - Len(sub)) : SubSeq(s, i + 1, i + Len(sub)) = sub

Undefined == "undefined"
Null == "null"

\* A value that may be absent (a ticker, a company name, a directory entry)
\* is the empty sequence when absent: !value holds exactly then.
None == <<>>

\* Array.prototype.find: the first element satisfying the test, or None

find(seq, Test(_)) ==
    LET hits == SelectSeq(seq, Test)
    IN  IF hits = <<>> THEN None ELSE <<Head(hits)>>

\* ------------------------------------------------------------------------
\* Reference data of the model: the ticker directory, the news and the
\* anomaly feed the Radar API serves
\* ------------------------------------------------------------------------
TickerA == <<"A", "@", "M", "I", "S", "X">>
TickerB == <<"B">>
TickerSet == {TickerA, TickerB}

MISX == <<"@", "M", "I", "S", "X">>

\* GET /api/tickers
Directory ==
    << [ticker |-> TickerA, company_name |-> <<"A", "a">>],
       [ticker |-> TickerB, company_name |-> <<"B", "b">>] >>

\* what the user can type into TickerInput
TypedInputs == { <<"a">>, <<"B">>, <<" ", "b", "b">>, <<"x">> }

\* GET /api/news/ticker/{ticker}; forTicker records the ticker an article
\* was fetched for
News(tk) ==
    IF tk = TickerA
    THEN << [id |-> "a1", forTicker |-> TickerA], [id |-> "a2", forTicker |-> TickerA] >>
    ELSE << [id |-> "b1", forTicker |-> TickerB] >>

ArticleIds == {"a1", "a2", "b1"}

TickerOf(id) == IF id = "b1" THEN TickerB ELSE TickerA

\* GET /api/quotes/{ticker}, and the mock series of generateMockStockData
Quotes(tk) == << [date |-> "d1", forTicker |-> tk] >>
MockQuotes == << [date |-> "d1", forTicker |-> <<"m", "o", "c", "k">>] >>

\* GET /api/ticker/{ticker}/company
CompanyInfo(tk) == [ticker |-> tk, company_name |-> <<"C">> \o tk]
\* fetchCompanyInfo returned null
NoCompany == [ticker |-> None, company_name |-> None]

\* GET /api/anomalies/impactful; the last anomaly names a ticker the
\* directory of GET /api/tickers does not list
AnomalyFeed == << [ticker |-> TickerA], [ticker |-> TickerB], [ticker |-> <<"X">>] >>

\* ------------------------------------------------------------------------
\* App.tsx: resolveTicker
\* ------------------------------------------------------------------------
\* Mutant of resolveTicker: the exact company name is tried before the
\* ticker with the default suffix.
resolveTickerCompanyFirst(input, suggestions) ==
    LET trimmed == trim(input)
        upper == toUpperCase(trimmed)
        withSuffix == upper \o MISX
        IsDirect(item) == toUpperCase(item.ticker) = upper
        IsBySuffix(item) == toUpperCase(item.ticker) = withSuffix
        IsByCompany(item) == toLowerCase(item.company_name) = toLowerCase(trimmed)
        IsPartial(item) == includes(toLowerCase(item.company_name), toLowerCase(trimmed))
        direct == find(suggestions, IsDirect)
        bySuffix == find(suggestions, IsBySuffix)
        byCompany == find(suggestions, IsByCompany)
        partialCompany == find(suggestions, IsPartial)
    IN  IF trimmed = <<>> THEN None
        ELSE IF direct # None THEN direct
        ELSE IF byCompany # None THEN byCompany
        ELSE IF ~includes(upper, <<"@">>) /\ bySuffix # None THEN bySuffix
        ELSE IF partialCompany # None THEN partialCompany
        ELSE None

\* The result is None or <<entry>>, the one-element sequence of the entry.
resolveTicker(input, suggestions) ==
    LET trimmed == trim(input)
        upper == toUpperCase(trimmed)
        withSuffix == upper \o MISX
        IsDirect(item) == toUpperCase(item.ticker) = upper
        IsBySuffix(item) == toUpperCase(item.ticker) = withSuffix
        IsByCompany(item) == toLowerCase(item.company_name) = toLowerCase(trimmed)
        IsPartial(item) == includes(toLowerCase(item.company_name), toLowerCase(trimmed))
        direct == find(suggestions, IsDirect)
        bySuffix == find(suggestions, IsBySuffix)
        byCompany == find(suggestions, IsByCompany)
        partialCompany == find(suggestions, IsPartial)
    IN  IF trimmed = <<>> THEN None
        ELSE IF direct # None THEN direct
        ELSE IF ~includes(upper, <<"@">>) /\ bySuffix # None THEN bySuffix
        ELSE IF byCompany # None THEN byCompany
        ELSE IF partialCompany # None THEN partialCompany
        ELSE None

\* ------------------------------------------------------------------------
\* financialService.ts: mapRawStatus, mergeAnalysisResults
\* ------------------------------------------------------------------------
Sentiment == {"Positive", "Negative", "Neutral"}

mapRawStatus(raw) ==
    [ articleId |-> raw.article_id,
      status    |-> raw.status,
      sentiment |-> IF raw.sentiment \in Sentiment THEN raw.sentiment ELSE Undefined,
      summary   |-> raw.summary,
      forTicker |-> raw.forTicker ]

\* JavaScript falsiness of an optional string
Falsy(v) == v \in {Undefined, Null, ""}

\* Mutant of mergeAnalysisResults: a completed status is projected whether
\* or not it carries a sentiment and a summary.
mergeAnalysisResultsPartial(articles, statuses) ==
    LET Analyzed(article) ==
            /\ article.id \in DOMAIN statuses
            /\ statuses[article.id].status = "completed"
        kept == SelectSeq(articles, Analyzed)
    IN  [ i \in DOMAIN kept |->
            [ id |-> kept[i].id, forTicker |-> kept[i].forTicker,
              sentiment |-> statuses[kept[i].id].sentiment,
              summary |-> statuses[kept[i].id].summary ] ]

\* a status map is a function from the article ids it holds to statuses
mergeAnalysisResults(articles, statuses) ==
    LET Analyzed(article) ==
            /\ article.id \in DOMAIN statuses
            /\ statuses[article.id].status = "completed"
            /\ ~Falsy(statuses[article.id].sentiment)
            /\ ~Falsy(statuses[article.id].summary)
        kept == SelectSeq(articles, Analyzed)
    IN  [ i \in DOMAIN kept |->
            [ id |-> kept[i].id, forTicker |-> kept[i].forTicker,
              sentiment |-> statuses[kept[i].id].sentiment,
              summary |-> statuses[kept[i].id].summary ] ]

\* ------------------------------------------------------------------------
\* App.tsx: mergeStatusMap
\* ------------------------------------------------------------------------
EmptyMap == [id \in {} |-> Null]

\* next[status.articleId] = status
Put(map, status) ==
    [ id \in DOMAIN map \cup {status.articleId} |->
        IF id = status.articleId THEN status ELSE map[id] ]

RECURSIVE PutAll(_, _)
PutAll(map, updates) ==
    IF updates = <<>> THEN map ELSE PutAll(Put(map, Head(updates)), Tail(updates))

\* Mutant of mergeStatusMap: an article that already has a status keeps it.
RECURSIVE mergeKeepingFirst(_, _)
mergeKeepingFirst(prev, updates) ==
    IF updates = <<>> THEN prev
    ELSE mergeKeepingFirst(
            IF Head(updates).articleId \in DOMAIN prev THEN prev
            ELSE Put(prev, Head(updates)),
            Tail(updates))

mergeStatusMap(prev, updates) ==
    IF Len(updates) = 0 THEN prev ELSE PutAll(prev, updates)

\* ------------------------------------------------------------------------
\* State of the application and of its collaborators
\* ------------------------------------------------------------------------
VARIABLES
    ticker, companyName, stockData, newsArticles, analyzedNews,   \* App state
    isLoading, isAnalyzingNews, error, impactfulAnomalies,
    analysisStatuses, availableTickers,
    submits,      \* handleTickerSubmit calls suspended at an await
    polls,        \* poll() calls suspended at await fetchAnalysisStatus
    interval,     \* the polling effect holds a running setInterval
    jobs,         \* Analysis Job Store: status of the job of each article
    nSubmits,     \* number of submissions that resolved a ticker
    enq,          \* what the enqueue response of the current session reported
    polled,       \* a status request was issued in the current session
    idled,        \* a merge of the current session left no article pending
    last,         \* the last step taken, for the steps the properties name
    \* mergeStatusMap applied to drawn inputs (SpecMerge)
    mergePrev,    \* the status map before the merges
    mergeLog,     \* the update lists merged so far, in order
    mergeMap,     \* the status map after the merges of mergeLog
    \* one call of analyzeNews or of generatePriceForecast (SpecChain)
    env,          \* the keys and the batch size the build was given
    call,         \* the call: its kind and its article list
    chainPc,      \* where the call stands: a try block, the loop, its end
    idx,          \* analyzeNews: the loop variable i
    batch,        \* analyzeNews: the batch handed to runNewsAnalysisBatch
    results,      \* analyzeNews: the results pushed so far
    attempts,     \* the adapter calls made so far, with their outcomes
    out,          \* what the call returned or threw
    \* resolveTicker applied to a drawn input and directory (SpecResolve)
    typed,        \* the input
    directory,    \* availableTickers at the time of the call
    resolution,   \* [done, value]: what resolveTicker returned
    \* mergeAnalysisResults applied to drawn arguments (SpecProject)
    projArticles, \* the articles
    projStatuses, \* the status map
    projection,   \* [done, value]: what mergeAnalysisResults returned
    \* the state of the mounted ForecastChart (SpecForecast)
    forecastData,   \* the forecast shown, or None
    isForecasting,  \* a request of this chart is awaited
    forecastError,  \* the component's error message, or Null
    forecastCalls,  \* handleGenerateForecast calls suspended at the await
    nForecasts      \* number of requests started

appVars == << ticker, companyName, stockData, newsArticles, analyzedNews,
           isLoading, isAnalyzingNews, error, impactfulAnomalies,
           analysisStatuses, availableTickers, submits, polls, interval,
           jobs, nSubmits, enq, polled, idled, last >>

mergeVars == << mergePrev, mergeLog, mergeMap >>

chainVars == << env, call, chainPc, idx, batch, results, attempts, out >>

pureVars == << typed, directory, resolution, projArticles, projStatuses, projection >>

forecastVars == << forecastData, isForecasting, forecastError, forecastCalls, nForecasts >>

auxVars == << mergeVars, chainVars, pureVars, forecastVars >>

vars == << appVars, auxVars >>

NotFoundMessage == "ticker not found"
FetchFailedMessage == "Failed to retrieve and analyze data. Please try again."

Other == [op |-> "other", tk |-> None]

\* ------------------------------------------------------------------------
\* Analysis Job Store (server side, behind /api/analyze/news)
\* ------------------------------------------------------------------------
RawStatus(id, st) ==
    [ article_id |-> id,
      status     |-> st,
      sentiment  |-> IF st = "completed" THEN "Positive" ELSE Undefined,
      summary    |-> IF st = "completed" THEN "ok" ELSE Undefined,
      forTicker  |-> TickerOf(id) ]

\* POST /api/analyze/news with force = false: a job is created for every
\* article that has none, and the statuses of the articles are returned
EnqueueJobs(js, articles) ==
    [ id \in ArticleIds |->
        IF js[id] = "none" /\ \E i \in DOMAIN articles : articles[i].id = id
        THEN "pending" ELSE js[id] ]

EnqueueResponse(js, articles) ==
    [ pending |-> Cardinality({ i \in DOMAIN articles : js[articles[i].id] = "pending" }),
      results |-> [ i \in DOMAIN articles |-> RawStatus(articles[i].id, js[articles[i].id]) ] ]

\* GET /api/analyze/news/{ticker}: the statuses of all jobs known for ticker
StatusResponse(js, tk) ==
    LET Known(article) == js[article.id] # "none"
        known == SelectSeq(News(tk), Known)
    IN  [ i \in DOMAIN known |-> RawStatus(known[i].id, js[known[i].id]) ]

\* ------------------------------------------------------------------------
\* App.tsx: the effects that run after a render
\* ------------------------------------------------------------------------
NewPoll(tk, articles) ==
    [ tk |-> tk, articles |-> articles, cancelled |-> FALSE,
      state |-> "sent", resp |-> <<>> ]

\* Mutant of Cleanup: the cleanup clears the interval but leaves the
\* cancelled flag of the suspended polls unset.
CleanupWithoutCancel(ps) == ps

\* cleanup of the polling effect: cancelled = true; clearInterval(interval)
\* (the suspended polls are a bag: their order of arrival is free)
Cleanup(ps) ==
    [ p \in { [ q EXCEPT !.cancelled = TRUE ] : q \in BagToSet(ps) } |->
        CopiesIn(p, ps) + CopiesIn([ p EXCEPT !.cancelled = FALSE ], ps) ]

\* the polling effect runs again when one of its dependencies changed
\* (setNewsArticles always installs a new array)
Rerun(newsSet) ==
    newsSet \/ ticker' # ticker \/ isAnalyzingNews' # isAnalyzingNews

\* Mutant of Starts: the effect's early return does not test isAnalyzingNews.
StartsWithoutFlag(newsSet) ==
    Rerun(newsSet) /\ ticker' # None /\ Len(newsArticles') > 0

Starts(newsSet) ==
    Rerun(newsSet) /\ ticker' # None /\ isAnalyzingNews' /\ Len(newsArticles') > 0

\* The render that follows a batch of state updates: base is the list of
\* suspended polls left by the step, newsSet tells that setNewsArticles ran.
Render(base, newsSet) ==
    /\ Starts(newsSet) => BagCardinality(base) < MaxPolls
    /\ analyzedNews' =
          IF ticker' = None \/ Len(newsArticles') = 0 THEN <<>>
          ELSE mergeAnalysisResults(newsArticles', analysisStatuses')
    /\ polls' =
          IF ~Rerun(newsSet) THEN base
          ELSE IF Starts(newsSet)
               THEN (IF interval THEN Cleanup(base) ELSE base)
                       (+) SetToBag({NewPoll(ticker', newsArticles')})
               ELSE IF interval THEN Cleanup(base) ELSE base
    /\ interval' = IF Rerun(newsSet) THEN Starts(newsSet) ELSE interval
    /\ polled' = IF nSubmits' # nSubmits THEN FALSE ELSE (polled \/ Starts(newsSet))

Without(ps, p) == ps (-) SetToBag({p})

\* ------------------------------------------------------------------------
\* App.tsx: handleTickerSubmit
\* ------------------------------------------------------------------------
NoResponse == [pending |-> 0, results |-> <<>>]

\* From the call to the first await (or to the early return).
handleTickerSubmit(submittedTicker) ==
    LET resolved == resolveTicker(submittedTicker, availableTickers) IN
    IF resolved = None
    THEN /\ isLoading' = FALSE
         /\ isAnalyzingNews' = FALSE
         /\ error' = NotFoundMessage
         /\ UNCHANGED << ticker, companyName, stockData, newsArticles,
                         analysisStatuses, submits, nSubmits, enq, idled >>
         /\ last' = Other
         /\ Render(polls, FALSE)
    ELSE /\ nSubmits < MaxSubmits
         /\ isLoading' = TRUE
         /\ isAnalyzingNews' = FALSE
         /\ error' = Null
         /\ ticker' = toUpperCase(resolved[1].ticker)
         /\ stockData' = <<>>
         /\ newsArticles' = <<>>
         /\ companyName' = resolved[1].company_name
         /\ analysisStatuses' = EmptyMap
         /\ nSubmits' = nSubmits + 1
         /\ submits' = submits \cup
               { [ sid |-> nSubmits + 1, tk |-> toUpperCase(resolved[1].ticker),
                   pc |-> "fetch", news |-> <<>>, resp |-> NoResponse ] }
         /\ enq' = "none"
         /\ idled' = FALSE
         /\ last' = Other
         /\ Render(polls, TRUE)

\* TickerInput: the form is disabled while isLoading || isAnalyzingNews
SubmitTyped(input) ==
    /\ ~(isLoading \/ isAnalyzingNews)
    /\ handleTickerSubmit(input)
    /\ UNCHANGED << impactfulAnomalies, availableTickers, jobs >>

\* String.prototype.replace('@MISX', '') on a ticker
replaceMISX(s) ==
    IF \E i \in 0..(Len(s) - Len(MISX)) : SubSeq(s, i + 1, i + Len(MISX)) = MISX
    THEN LET i == CHOOSE i \in 0..(Len(s) - Len(MISX)) :
                     /\ SubSeq(s, i + 1, i + Len(MISX)) = MISX
                     /\ \A j \in 0..(i - 1) : SubSeq(s, j + 1, j + Len(MISX)) # MISX
         IN  SubSeq(s, 1, i) \o SubSeq(s, i + Len(MISX) + 1, Len(s))
    ELSE s

\* ImpactfulNews is rendered while !isLoading and there are anomalies;
\* a click on a card calls handleAnomalyClick
AnomalyClick(i) ==
    /\ ~isLoading
    /\ i \in DOMAIN impactfulAnomalies
    /\ handleTickerSubmit(replaceMISX(impactfulAnomalies[i].ticker))
    /\ UNCHANGED << impactfulAnomalies, availableTickers, jobs >>

\* Promise.all of the three initial requests settles (none of them rejects:
\* each service function catches its errors and returns its default).
FetchSettled(s, company, stock, rawNews) ==
    /\ s \in submits /\ s.pc = "fetch"
    /\ companyName' = IF company.company_name # None
                      THEN company.company_name ELSE companyName
    /\ stockData' = stock
    /\ isLoading' = FALSE
    /\ IF Len(rawNews) = 0
       THEN /\ isAnalyzingNews' = FALSE
            /\ UNCHANGED newsArticles
            /\ submits' = submits \ {s}
       ELSE /\ newsArticles' = rawNews
            /\ UNCHANGED isAnalyzingNews
            /\ submits' = (submits \ {s}) \cup
                  { [ s EXCEPT !.pc = "queue", !.news = rawNews ] }
    /\ UNCHANGED << ticker, error, analysisStatuses, impactfulAnomalies,
                    availableTickers, jobs, nSubmits, enq, idled >>
    /\ last' = Other
    /\ Render(polls, Len(rawNews) # 0)

\* The Job Store handles the enqueue request of s.
QueueServed(s) ==
    /\ s \in submits /\ s.pc = "queue"
    /\ jobs' = EnqueueJobs(jobs, s.news)
    /\ submits' = (submits \ {s}) \cup
          { [ s EXCEPT !.pc = "queued", !.resp = EnqueueResponse(jobs', s.news) ] }
    /\ last' = Other
    /\ UNCHANGED << ticker, companyName, stockData, newsArticles, analyzedNews,
                    isLoading, isAnalyzingNews, error, impactfulAnomalies,
                    analysisStatuses, availableTickers, polls, interval,
                    nSubmits, enq, polled, idled >>

\* queueNewsAnalysis resolves: lines 117-122 and the finally block.
QueueSettled(s) ==
    /\ s \in submits /\ s.pc = "queued"
    /\ LET mapped == [ i \in DOMAIN s.resp.results |-> mapRawStatus(s.resp.results[i]) ]
       IN  analysisStatuses' = PutAll(EmptyMap, mapped)
    /\ isAnalyzingNews' = (s.resp.pending > 0)
    /\ isLoading' = FALSE
    /\ submits' = submits \ {s}
    /\ enq' = IF s.sid = nSubmits
              THEN (IF s.resp.pending > 0 THEN "some" ELSE "zero")
              ELSE enq
    /\ last' = Other
    /\ UNCHANGED << ticker, companyName, stockData, newsArticles, error,
                    impactfulAnomalies, availableTickers, jobs, nSubmits, idled >>
    /\ Render(polls, FALSE)

\* queueNewsAnalysis rejects (response not ok): the catch and finally blocks.
QueueRejected(s) ==
    /\ s \in submits /\ s.pc = "queue"
    /\ error' = FetchFailedMessage
    /\ isAnalyzingNews' = FALSE
    /\ isLoading' = FALSE
    /\ submits' = submits \ {s}
    /\ last' = Other
    /\ UNCHANGED << ticker, companyName, stockData, newsArticles,
                    analysisStatuses, impactfulAnomalies, availableTickers,
                    jobs, nSubmits, enq, idled >>
    /\ Render(polls, FALSE)

\* ------------------------------------------------------------------------
\* App.tsx: the polling effect
\* ------------------------------------------------------------------------
\* setInterval(poll, 2000) fires: poll() sends a status request.
PollTick ==
    /\ interval
    /\ BagCardinality(polls) < MaxPolls
    /\ polls' = polls (+) SetToBag({NewPoll(ticker, newsArticles)})
    /\ polled' = TRUE
    /\ last' = Other
    /\ UNCHANGED << ticker, companyName, stockData, newsArticles, analyzedNews,
                    isLoading, isAnalyzingNews, error, impactfulAnomalies,
                    analysisStatuses, availableTickers, submits, interval,
                    jobs, nSubmits, enq, idled >>

\* The Job Store answers the status request p.
PollServed(p) ==
    /\ BagIn(p, polls) /\ p.state = "sent"
    /\ polls' = Without(polls, p) (+)
          SetToBag({ [ p EXCEPT !.state = "answered",
                                !.resp = StatusResponse(jobs, p.tk) ] })
    /\ last' = Other
    /\ UNCHANGED << ticker, companyName, stockData, newsArticles, analyzedNews,
                    isLoading, isAnalyzingNews, error, impactfulAnomalies,
                    analysisStatuses, availableTickers, submits, interval,
                    jobs, nSubmits, enq, polled, idled >>

\* Mutant of hasPending: an article without an entry does not count.
hasPendingAmongEntries(articles, next) ==
    \E i \in DOMAIN articles :
        /\ articles[i].id \in DOMAIN next
        /\ next[articles[i].id].status = "pending"

\* newsArticles.some(article => !next[article.id] || pending)
hasPending(articles, next) ==
    \E i \in DOMAIN articles :
        \/ articles[i].id \notin DOMAIN next
        \/ next[articles[i].id].status = "pending"

\* fetchAnalysisStatus resolves in poll(): lines 179-195.
PollSettled(p) ==
    /\ BagIn(p, polls) /\ p.state = "answered"
    /\ IF p.cancelled
       THEN /\ UNCHANGED << analysisStatuses, isAnalyzingNews, idled >>
            /\ last' = [op |-> "discarded", tk |-> p.tk]
       ELSE LET statuses == [ k \in DOMAIN p.resp |-> mapRawStatus(p.resp[k]) ]
                next == mergeStatusMap(analysisStatuses, statuses)
            IN  /\ analysisStatuses' = next
                /\ isAnalyzingNews' =
                      IF hasPending(p.articles, next) THEN isAnalyzingNews ELSE FALSE
                /\ idled' = (idled \/ ~hasPending(p.articles, next))
                /\ last' = Other
    /\ UNCHANGED << ticker, companyName, stockData, newsArticles, isLoading,
                    error, impactfulAnomalies, availableTickers, submits,
                    jobs, nSubmits, enq >>
    /\ Render(Without(polls, p), FALSE)

\* Mutant of PollRejected: the catch block gives up polling.
PollRejectedStopsPolling(p) ==
    /\ BagIn(p, polls) /\ p.state = "sent"
    /\ last' = IF p.cancelled THEN Other ELSE [op |-> "pollFailed", tk |-> p.tk]
    /\ isAnalyzingNews' = (IF p.cancelled THEN isAnalyzingNews ELSE FALSE)
    /\ UNCHANGED << ticker, companyName, stockData, newsArticles, isLoading,
                    error, impactfulAnomalies, analysisStatuses,
                    availableTickers, submits, jobs, nSubmits, enq, idled >>
    /\ Render(Without(polls, p), FALSE)

\* fetchAnalysisStatus rejects in poll(): the catch block only logs.
PollRejected(p) ==
    /\ BagIn(p, polls) /\ p.state = "sent"
    /\ polls' = Without(polls, p)
    /\ last' = IF p.cancelled THEN Other ELSE [op |-> "pollFailed", tk |-> p.tk]
    /\ UNCHANGED << ticker, companyName, stockData, newsArticles, analyzedNews,
                    isLoading, isAnalyzingNews, error, impactfulAnomalies,
                    analysisStatuses, availableTickers, submits, interval,
                    jobs, nSubmits, enq, polled, idled >>

\* ------------------------------------------------------------------------
\* App.tsx: anomaly feed and ticker directory; the Job Store's worker
\* ------------------------------------------------------------------------
\* Mutant of AnomaliesLoaded: the refresh waits while a submission loads.
AnomaliesLoadedWhenNotLoading(anomalies) ==
    /\ ~isLoading
    /\ impactfulAnomalies' = anomalies
    /\ impactfulAnomalies' # impactfulAnomalies
    /\ last' = Other
    /\ UNCHANGED << ticker, companyName, stockData, newsArticles, analyzedNews,
                    isLoading, isAnalyzingNews, error, analysisStatuses,
                    availableTickers, submits, polls, interval, jobs,
                    nSubmits, enq, polled, idled >>

\* a loadAnomalies call (at mount or on the 5 s interval) settles;
\* fetchImpactfulAnomalies returns [] on any failure
AnomaliesLoaded(anomalies) ==
    /\ impactfulAnomalies' = anomalies
    /\ impactfulAnomalies' # impactfulAnomalies
    /\ last' = Other
    /\ UNCHANGED << ticker, companyName, stockData, newsArticles, analyzedNews,
                    isLoading, isAnalyzingNews, error, analysisStatuses,
                    availableTickers, submits, polls, interval, jobs,
                    nSubmits, enq, polled, idled >>

\* loadTickers settles (once, at mount); fetchAvailableTickers returns []
\* on any failure
TickersLoaded(tickers) ==
    /\ availableTickers = <<>>
    /\ tickers # <<>>
    /\ availableTickers' = tickers
    /\ last' = Other
    /\ UNCHANGED << ticker, companyName, stockData, newsArticles, analyzedNews,
                    isLoading, isAnalyzingNews, error, impactfulAnomalies,
                    analysisStatuses, submits, polls, interval, jobs,
                    nSubmits, enq, polled, idled >>

\* the analysis worker finishes a pending job
JobFinished(id, outcome) ==
    /\ jobs[id] = "pending"
    /\ jobs' = [ jobs EXCEPT ![id] = outcome ]
    /\ last' = Other
    /\ UNCHANGED << ticker, companyName, stockData, newsArticles, analyzedNews,
                    isLoading, isAnalyzingNews, error, impactfulAnomalies,
                    analysisStatuses, availableTickers, submits, polls,
                    interval, nSubmits, enq, polled, idled >>

\* ------------------------------------------------------------------------
\* The application
\* ------------------------------------------------------------------------
AppInit ==
    /\ ticker = None
    /\ companyName = None
    /\ stockData = <<>>
    /\ newsArticles = <<>>
    /\ analyzedNews = <<>>
    /\ isLoading = FALSE
    /\ isAnalyzingNews = FALSE
    /\ error = Null
    /\ impactfulAnomalies = <<>>
    /\ analysisStatuses = EmptyMap
    /\ availableTickers = <<>>
    /\ submits = {}
    /\ polls = EmptyBag
    /\ interval = FALSE
    \* the store is durable: jobs of an earlier visit may already be done
    /\ jobs \in { [ id \in ArticleIds |-> "none" ],
                  [ id \in ArticleIds |-> IF id = "b1" THEN "completed" ELSE "none" ] }
    /\ nSubmits = 0
    /\ enq = "none"
    /\ polled = FALSE
    /\ idled = FALSE
    /\ last = Other

Next ==
    \/ /\ UNCHANGED auxVars
       /\ \E input \in TypedInputs : SubmitTyped(input)
    \/ /\ UNCHANGED auxVars
       /\ \E i \in DOMAIN AnomalyFeed : AnomalyClick(i)
    \/ /\ UNCHANGED auxVars
       /\ \E s \in submits :
              \E company \in {CompanyInfo(s.tk)}, stock \in {Quotes(s.tk)},
                 rawNews \in {<<>>, News(s.tk)} :
                    FetchSettled(s, company, stock, rawNews)
    \/ /\ UNCHANGED auxVars
       /\ \E s \in submits : QueueServed(s)
    \/ /\ UNCHANGED auxVars
       /\ \E s \in submits : QueueSettled(s)
    \/ /\ UNCHANGED auxVars
       /\ \E s \in submits : QueueRejected(s)
    \/ /\ UNCHANGED auxVars
       /\ PollTick
    \/ /\ UNCHANGED auxVars
       /\ \E p \in BagToSet(polls) : PollServed(p)
    \/ /\ UNCHANGED auxVars
       /\ \E p \in BagToSet(polls) : PollSettled(p)
    \/ /\ UNCHANGED auxVars
       /\ \E p \in BagToSet(polls) : PollRejected(p)
    \/ /\ UNCHANGED auxVars
       /\ AnomaliesLoaded(AnomalyFeed)
    \/ /\ UNCHANGED auxVars
       /\ AnomaliesLoaded(<<>>)
    \/ /\ UNCHANGED auxVars
       /\ TickersLoaded(Directory)
    \/ /\ UNCHANGED auxVars
       /\ \E id \in ArticleIds, outcome \in {"completed", "failed"} : JobFinished(id, outcome)

\* no merge is under study
MergeIdle ==
    /\ mergePrev = EmptyMap /\ mergeLog = <<>> /\ mergeMap = EmptyMap

\* no call of the fallback chain is under study
ChainIdle ==
    /\ env = [ OPENROUTER_API_KEY |-> TRUE, GEMINI_API_KEY |-> TRUE,
               VITE_ANALYSIS_BATCH_SIZE |-> [finite |-> TRUE, tenths |-> 10] ]
    /\ call = [kind |-> "none", articles |-> <<>>]
    /\ chainPc = "idle"
    /\ idx = 0 /\ batch = <<>> /\ results = <<>> /\ attempts = <<>>
    /\ out = [ok |-> FALSE, value |-> <<>>]

NotDone == [done |-> FALSE, value |-> <<>>]

\* no pure function is under study
PureIdle ==
    /\ typed = <<>> /\ directory = <<>> /\ resolution = NotDone
    /\ projArticles = <<>> /\ projStatuses = EmptyMap /\ projection = NotDone

\* ForecastChart as mounted: useState(null), useState(false), useState(null)
ForecastMounted ==
    /\ forecastData = None /\ isForecasting = FALSE /\ forecastError = Null
    /\ forecastCalls = {} /\ nForecasts = 0

Init == AppInit /\ MergeIdle /\ ChainIdle /\ PureIdle /\ ForecastMounted

Spec == Init /\ [][Next]_vars

\* ------------------------------------------------------------------------
\* Properties of the ticker session and of the Polling Reconciler
\* ------------------------------------------------------------------------
Terminal == {"completed", "failed"}

\* a status request is sent in this step
RequestIssued == BagCardinality(polls') > BagCardinality(polls)

\* C1: a status response that was requested for ticker A and arrives after
\* the session has switched to another ticker B is discarded: the step
\* leaves the status map of B unchanged.
C1_StaleResponseDiscarded ==
    [][ \A p \in BagToSet(polls) :
          (PollSettled(p) /\ p.tk # ticker) =>
              /\ analysisStatuses' = analysisStatuses
              /\ isAnalyzingNews' = isAnalyzingNews ]_vars

\* a response requested for A has just been dropped in the session of B
C1_Witness ==
    /\ last = [op |-> "discarded", tk |-> TickerA]
    /\ ticker = TickerB

\* C2: the session of the active ticker never holds articles, price
\* history or status-map entries fetched or enqueued for another ticker.
C2_NoCarryover ==
    /\ \A i \in DOMAIN newsArticles : newsArticles[i].forTicker = ticker
    /\ \A i \in DOMAIN stockData : stockData[i].forTicker = ticker
    /\ \A id \in DOMAIN analysisStatuses : analysisStatuses[id].forTicker = ticker

\* C3: within one ticker session no status of the status map goes from
\* completed or failed back to pending, in whatever order the responses of
\* overlapping status requests arrive.
C3_Monotone ==
    [][ (\E p \in BagToSet(polls) : PollSettled(p)) =>
          \A id \in DOMAIN analysisStatuses :
              (analysisStatuses[id].status \in Terminal /\ id \in DOMAIN analysisStatuses')
                  => analysisStatuses'[id].status # "pending" ]_vars

\* C6: once a merge has left no article of the session pending, the
\* reconciler is Idle, the requests still in flight are cancelled, and no
\* further status request is issued for that session.
C6_NoTrailingRequest ==
    [][ /\ (~idled /\ idled') =>
              /\ ~isAnalyzingNews' /\ ~interval'
              /\ \A p \in BagToSet(polls') : p.cancelled
        /\ (idled /\ nSubmits' = nSubmits) => ~RequestIssued ]_vars

\* C7: if the enqueue response of the session reports pending 0, no status
\* request is issued for that session; if it reports pending > 0 and the
\* session has articles, the reconciler enters Polling and issues a request.
C7_PollingIffPending ==
    [][ /\ enq' = "zero" => ~polled'
        /\ \A s \in submits :
              (QueueSettled(s) /\ s.sid = nSubmits /\ s.resp.pending > 0
                 /\ Len(newsArticles) > 0)
                  => (isAnalyzingNews' /\ interval' /\ polled') ]_vars

\* C8: a rejected status request changes neither the status map nor the
\* polling flag, sets no error and leaves the session as it is; the
\* interval keeps running, so the next tick sends a new request.
C8_PollFailureTolerated ==
    [][ \A p \in BagToSet(polls) :
          (PollRejected(p) /\ ~p.cancelled) =>
              /\ analysisStatuses' = analysisStatuses
              /\ isAnalyzingNews' = isAnalyzingNews /\ isAnalyzingNews
              /\ error' = error
              /\ ticker' = ticker /\ newsArticles' = newsArticles
              /\ interval' /\ BagCardinality(polls') < MaxPolls ]_vars

\* a status request of the running reconciler has just failed
C8_Witness ==
    /\ last.op = "pollFailed" /\ last.tk = ticker
    /\ isAnalyzingNews /\ interval /\ error = Null
    /\ \E id \in DOMAIN analysisStatuses : analysisStatuses[id].status = "pending"

\* ------------------------------------------------------------------------
\* SpecMerge: mergeStatusMap on drawn status maps and update lists
\* ------------------------------------------------------------------------
MergeIds == {"a1", "a2"}

MergeStatuses ==
    { mapRawStatus(RawStatus(id, st)) : id \in MergeIds, st \in {"pending", "completed", "failed"} }

\* the lists of at most n statuses
UpdateLists(n) == UNION { [1..k -> MergeStatuses] : k \in 0..n }

\* the status maps over MergeIds in which every entry sits under its own id
StatusMaps ==
    { m \in UNION { [D -> MergeStatuses] : D \in SUBSET MergeIds } :
        \A id \in DOMAIN m : m[id].articleId = id }

MergeInit ==
    /\ mergePrev \in StatusMaps
    /\ mergeLog = <<>>
    /\ mergeMap = mergePrev

\* setAnalysisStatuses(prev => mergeStatusMap(prev, updates))
ApplyMerge(updates) ==
    /\ Len(mergeLog) < 2
    /\ mergeMap' = mergeStatusMap(mergeMap, updates)
    /\ mergeLog' = Append(mergeLog, updates)
    /\ UNCHANGED mergePrev

MergeNext ==
    /\ UNCHANGED << appVars, chainVars, pureVars, forecastVars >>
    /\ \E updates \in UpdateLists(MaxUpdates) : ApplyMerge(updates)

InitMerge == AppInit /\ MergeInit /\ ChainIdle /\ PureIdle /\ ForecastMounted

SpecMerge == InitMerge /\ [][MergeNext]_vars

\* the last status an update list gives for id
LastFor(updates, id) ==
    LET named == { i \in DOMAIN updates : updates[i].articleId = id }
    IN  updates[CHOOSE i \in named : \A j \in named : j <= i]

\* C4: merging U1 then U2 gives the same map as merging U2 then U1.
C4_MergeCommutes ==
    Len(mergeLog) = 2 =>
        mergeMap = mergeStatusMap(mergeStatusMap(mergePrev, mergeLog[2]), mergeLog[1])

\* C5: merging the same list twice gives the same map as merging it once;
\* after one merge every id the list does not name keeps its entry (or its
\* absence) and every id it names holds the last status the list gives it.
C5_MergeIdempotentLastWins ==
    /\ (Len(mergeLog) = 2 /\ mergeLog[1] = mergeLog[2]) =>
          mergeMap = mergeStatusMap(mergePrev, mergeLog[1])
    /\ Len(mergeLog) = 1 =>
          LET named == { mergeLog[1][i].articleId : i \in DOMAIN mergeLog[1] }
          IN  /\ DOMAIN mergeMap = DOMAIN mergePrev \cup named
              /\ \A id \in DOMAIN mergeMap :
                    mergeMap[id] = IF id \in named THEN LastFor(mergeLog[1], id)
                                   ELSE mergePrev[id]

\* a list that names an article twice, with different statuses, was merged
\* twice into a map that held a third status for it
C5_Witness ==
    /\ Len(mergeLog) = 2 /\ mergeLog[1] = mergeLog[2]
    /\ Len(mergeLog[1]) = 2
    /\ mergeLog[1][1].articleId = mergeLog[1][2].articleId
    /\ mergeLog[1][1] # mergeLog[1][2]
    /\ mergeLog[1][1].articleId \in DOMAIN mergePrev
    /\ mergePrev[mergeLog[1][1].articleId] \notin { mergeLog[1][1], mergeLog[1][2] }
    /\ mergeMap[mergeLog[1][1].articleId] = mergeLog[1][2]

\* ------------------------------------------------------------------------
\* LLM adapters (services/llm/openrouter.ts, ollama.ts, gemini.ts)
\* ------------------------------------------------------------------------
\* length of the article list given to analyzeNews in SpecChain
MaxArticles == 3

ForecastDays == 7

\* a NewsArticle; the fields the adapters do not read are left out
ChainArticle(k) == [id |-> ToString(k), headline |-> "X"]

ArticleLists == { [k \in 1..n |-> ChainArticle(k)] : n \in 0..MaxArticles }

\* an AnalyzedNews: { ...article, sentiment, summary }
Analyzed(article, sentiment, summary) ==
    [ id |-> article.id, headline |-> article.headline,
      sentiment |-> sentiment, summary |-> summary ]

\* Number(VITE_ANALYSIS_BATCH_SIZE ?? '1') in tenths: NaN, 0, -1, 0.5, 1, 2.5
EnvBatchSizes ==
    { [finite |-> FALSE, tenths |-> 0] } \cup
    { [finite |-> TRUE, tenths |-> t] : t \in {0, -10, 5, 10, 25} }

Envs ==
    [ OPENROUTER_API_KEY : BOOLEAN, GEMINI_API_KEY : BOOLEAN,
      VITE_ANALYSIS_BATCH_SIZE : EnvBatchSizes ]

\* what an awaited call gave: a value, or an exception
Thrown == [ok |-> FALSE, value |-> <<>>]
Returned(value) == [ok |-> TRUE, value |-> value]

\* What a provider can answer to a sentiment request: no usable answer (a
\* network error, a status that is not ok, text that is not a JSON array),
\* or an array of results: one per article, one per article with a
\* sentiment outside the enum, one that skips the first article and
\* names an id that was not asked, one per article in reverse order, or
\* one per article with the first repeated at the end.
NewsReplies(articles) ==
    LET good == [ k \in DOMAIN articles |->
                    [id |-> articles[k].id, sentiment |-> "Positive", summary |-> "s"] ]
    IN  { [ok |-> FALSE, body |-> <<>>],
          [ok |-> TRUE,  body |-> good],
          [ok |-> TRUE,  body |-> [ k \in DOMAIN good |-> [good[k] EXCEPT !.sentiment = "Bullish"] ]],
          [ok |-> TRUE,  body |-> SubSeq(good, 2, Len(good)) \o
                                  << [id |-> "0", sentiment |-> "Negative", summary |-> "s"] >>],
          [ok |-> TRUE,  body |-> [ k \in DOMAIN good |-> good[Len(good) + 1 - k] ]],
          [ok |-> TRUE,  body |-> good \o SelectSeq(good, LAMBDA g : g.id = ChainArticle(1).id)] }

isSentiment(value) == value \in Sentiment

\* Mutant of joinResults: a result whose id matches no article is kept,
\* without the article's fields.
RECURSIVE joinResultsKeepingUnmatched(_, _, _)
joinResultsKeepingUnmatched(articles, analysisResults, coerce) ==
    IF analysisResults = <<>> THEN <<>>
    ELSE LET result == Head(analysisResults)
             originals == SelectSeq(articles, LAMBDA a : a.id = result.id)
             rest == joinResultsKeepingUnmatched(articles, Tail(analysisResults), coerce)
             sentiment == IF coerce /\ ~isSentiment(result.sentiment)
                              THEN "Neutral" ELSE result.sentiment
         IN  IF originals = <<>>
             THEN << [ id |-> result.id, headline |-> "",
                       sentiment |-> sentiment, summary |-> result.summary ] >> \o rest
             ELSE << Analyzed(originals[Len(originals)], sentiment, result.summary) >> \o rest

\* analysisResults.map(result => articlesById.get(result.id) ...).filter(non-null);
\* coerce: the adapter replaces a sentiment outside the enum by Neutral
RECURSIVE joinResults(_, _, _)
joinResults(articles, analysisResults, coerce) ==
    IF analysisResults = <<>> THEN <<>>
    ELSE LET result == Head(analysisResults)
             originals == SelectSeq(articles, LAMBDA a : a.id = result.id)
             rest == joinResults(articles, Tail(analysisResults), coerce)
         IN  IF originals = <<>> THEN rest
             ELSE << Analyzed(originals[Len(originals)],
                              IF coerce /\ ~isSentiment(result.sentiment)
                                  THEN "Neutral" ELSE result.sentiment,
                              result.summary) >> \o rest

analyzeNewsWithOpenRouter(articles, reply) ==
    IF ~env.OPENROUTER_API_KEY \/ ~reply.ok THEN Thrown
    ELSE Returned(joinResults(articles, reply.body, FALSE))

analyzeNewsWithOllama(articles, reply) ==
    IF ~reply.ok THEN Thrown
    ELSE Returned(joinResults(articles, reply.body, FALSE))

analyzeNewsWithGemini(articles, reply) ==
    IF ~env.GEMINI_API_KEY THEN Thrown
    ELSE IF Len(articles) = 0 THEN Returned(<<>>)
    ELSE IF ~reply.ok THEN Thrown
    ELSE Returned(joinResults(articles, reply.body, TRUE))

ForecastPoints(n) == [ k \in 1..n |-> [date |-> k, price |-> 100] ]

\* What a provider can answer to a forecast request: no usable answer, or
\* a JSON object: a forecast of ForecastDays points with analysis text, one
\* that is a point short or a point long, one without points, one whose
\* analysis is empty, one without the analysis key and one without the
\* forecast key.
ForecastReplies ==
    { [ok |-> FALSE, body |-> [forecast |-> <<>>, analysis |-> ""]],
      [ok |-> TRUE,  body |-> [forecast |-> ForecastPoints(ForecastDays), analysis |-> "up"]],
      [ok |-> TRUE,  body |-> [forecast |-> ForecastPoints(ForecastDays - 1), analysis |-> "up"]],
      [ok |-> TRUE,  body |-> [forecast |-> ForecastPoints(ForecastDays + 1), analysis |-> "up"]],
      [ok |-> TRUE,  body |-> [forecast |-> <<>>, analysis |-> "up"]],
      [ok |-> TRUE,  body |-> [forecast |-> ForecastPoints(ForecastDays), analysis |-> ""]],
      [ok |-> TRUE,  body |-> [forecast |-> ForecastPoints(ForecastDays)]],
      [ok |-> TRUE,  body |-> [analysis |-> "up"]] }

\* Mutant of InvalidForecast: only the number of points is validated.
InvalidForecastLengthOnly(forecastResult) ==
    \/ "forecast" \notin DOMAIN forecastResult
    \/ Len(forecastResult.forecast) # ForecastDays

\* !forecast || forecast.length !== 7 || !analysis
InvalidForecast(forecastResult) ==
    \/ "forecast" \notin DOMAIN forecastResult
    \/ Len(forecastResult.forecast) # ForecastDays
    \/ "analysis" \notin DOMAIN forecastResult
    \/ forecastResult.analysis = ""

generateForecastWithOpenRouter(reply) ==
    IF ~env.OPENROUTER_API_KEY \/ ~reply.ok \/ InvalidForecast(reply.body) THEN Thrown
    ELSE Returned(reply.body)

generateForecastWithOllama(reply) ==
    IF ~reply.ok \/ InvalidForecast(reply.body) THEN Thrown
    ELSE Returned(reply.body)

generateForecastWithGemini(reply) ==
    IF ~env.GEMINI_API_KEY \/ ~reply.ok \/ InvalidForecast(reply.body) THEN Thrown
    ELSE Returned(reply.body)

\* ------------------------------------------------------------------------
\* The Fallback Chain (services/llm/index.ts)
\* ------------------------------------------------------------------------
Tries == {"try1", "try2", "try3"}

\* the try block entered when the one before it caught an exception
NextTry(try) == IF try = "try1" THEN "try2" ELSE "try3"

\* Mutant of NewsAdapterAt: the local model server is asked first.
NewsAdapterOllamaFirst(try) ==
    CASE try = "try1" -> "Ollama"
      [] try = "try2" -> "OpenRouter"
      [] try = "try3" -> "Gemini"

\* the adapter runNewsAnalysisBatch calls in each of its nested try blocks
NewsAdapterAt(try) ==
    CASE try = "try1" -> "OpenRouter"
      [] try = "try2" -> "Ollama"
      [] try = "try3" -> "Gemini"

\* the adapter generatePriceForecast calls in each of its nested try blocks
ForecastAdapterAt(try) ==
    CASE try = "try1" -> "OpenRouter"
      [] try = "try2" -> "Ollama"
      [] try = "try3" -> "Gemini"

analyzeNewsWith(adapter, articles, reply) ==
    CASE adapter = "OpenRouter" -> analyzeNewsWithOpenRouter(articles, reply)
      [] adapter = "Ollama"     -> analyzeNewsWithOllama(articles, reply)
      [] adapter = "Gemini"     -> analyzeNewsWithGemini(articles, reply)

generateForecastWith(adapter, reply) ==
    CASE adapter = "OpenRouter" -> generateForecastWithOpenRouter(reply)
      [] adapter = "Ollama"     -> generateForecastWithOllama(reply)
      [] adapter = "Gemini"     -> generateForecastWithGemini(reply)

FailedSummary == "AI analysis failed. (Mock summary)"

\* Mutant of defaultResult: the innermost catch returns an empty list.
defaultResultEmpty(articles) == <<>>

\* the innermost catch of runNewsAnalysisBatch
defaultResult(articles) ==
    [ k \in DOMAIN articles |-> Analyzed(articles[k], "Neutral", FailedSummary) ]

ForecastFailedMessage == "Failed to generate forecast."

\* Mutant of effectiveBatchSize: the floored size is used without Math.max.
effectiveBatchSizeUnclamped(size) ==
    IF size.finite /\ size.tenths > 0 THEN size.tenths \div 10 ELSE 1

\* Number.isFinite(size) && size > 0 ? Math.floor(size) : 1, then Math.max(1, .)
effectiveBatchSize(size) ==
    LET batchSize == IF size.finite /\ size.tenths > 0 THEN size.tenths \div 10 ELSE 1
    IN  IF batchSize > 1 THEN batchSize ELSE 1

\* Array.prototype.slice(from, to) for 0 <= from <= to
slice(seq, from, to) ==
    SubSeq(seq, from + 1, IF to < Len(seq) THEN to ELSE Len(seq))

ChainInit ==
    /\ env \in Envs
    /\ call \in { [kind |-> "news", articles |-> a] : a \in ArticleLists }
                \cup { [kind |-> "forecast", articles |-> <<>>] }
    /\ chainPc = "called"
    /\ idx = 0 /\ batch = <<>> /\ results = <<>> /\ attempts = <<>>
    /\ out = [ok |-> FALSE, value |-> <<>>]

\* Mutant of NextBatch: the loop does not await runNewsAnalysisBatch and
\* takes the next batch while the call for the current one is in flight.
NextBatchUnawaited ==
    /\ call.kind = "news" /\ chainPc \in {"called", "loop"} \cup Tries
    /\ LET size == effectiveBatchSize(env.VITE_ANALYSIS_BATCH_SIZE)
           start == IF chainPc \in Tries THEN idx + size ELSE idx
       IN  /\ start < Len(call.articles)
           /\ batch' = slice(call.articles, start, start + size)
           /\ chainPc' = "try1"
           /\ idx' = start
    /\ UNCHANGED << env, call, results, attempts, out >>

\* Mutant of NextBatch: the loop body also runs for i = articles.length and
\* runNewsAnalysisBatch hands the batch to the first adapter without looking
\* at its length.
NextBatchAlways ==
    /\ call.kind = "news" /\ chainPc \in {"called", "loop"}
    /\ idx <= Len(call.articles)
    /\ LET size == effectiveBatchSize(env.VITE_ANALYSIS_BATCH_SIZE)
       IN  /\ batch' = slice(call.articles, idx, idx + size)
           /\ chainPc' = "try1" /\ idx' = idx
    /\ UNCHANGED << env, call, results, attempts, out >>

\* analyzeNews: the loop takes the next batch and runNewsAnalysisBatch
\* enters its first try block (or returns [] for an empty batch)
NextBatch ==
    /\ call.kind = "news" /\ chainPc \in {"called", "loop"}
    /\ idx < Len(call.articles)
    /\ LET size == effectiveBatchSize(env.VITE_ANALYSIS_BATCH_SIZE)
       IN  /\ batch' = slice(call.articles, idx, idx + size)
           /\ IF Len(batch') = 0
                 THEN chainPc' = "loop" /\ idx' = idx + size
                 ELSE chainPc' = "try1" /\ idx' = idx
    /\ UNCHANGED << env, call, results, attempts, out >>

\* analyzeNews: the loop condition fails and results is returned
analyzeNewsReturns ==
    /\ call.kind = "news" /\ chainPc \in {"called", "loop"}
    /\ ~(idx < Len(call.articles))
    /\ chainPc' = "returned"
    /\ out' = Returned(results)
    /\ UNCHANGED << env, call, idx, batch, results, attempts >>

\* Mutant of NewsAttempt: the innermost catch rethrows instead of returning
\* the default result.
NewsAttemptRethrows(reply) ==
    /\ call.kind = "news" /\ chainPc \in Tries
    /\ LET adapter == NewsAdapterAt(chainPc)
           r == analyzeNewsWith(adapter, batch, reply)
           size == effectiveBatchSize(env.VITE_ANALYSIS_BATCH_SIZE)
       IN  /\ attempts' = Append(attempts,
                  [adapter |-> adapter, ok |-> r.ok, value |-> r.value, at |-> idx])
           /\ IF r.ok
                 THEN /\ results' = results \o r.value
                      /\ idx' = idx + size
                      /\ chainPc' = "loop"
                      /\ out' = out
              ELSE IF chainPc # "try3"
                 THEN /\ chainPc' = NextTry(chainPc)
                      /\ UNCHANGED << results, idx, out >>
              ELSE    /\ chainPc' = "thrown"
                      /\ out' = [ok |-> FALSE, value |-> "Failed to analyze news."]
                      /\ UNCHANGED << results, idx >>
    /\ UNCHANGED << env, call, batch >>

\* Mutant of NewsAttempt: after the third failure the default result is
\* pushed for the failed batch and for every article after it, and the loop
\* ends.
NewsAttemptDegradesRest(reply) ==
    /\ call.kind = "news" /\ chainPc \in Tries
    /\ LET adapter == NewsAdapterAt(chainPc)
           r == analyzeNewsWith(adapter, batch, reply)
           size == effectiveBatchSize(env.VITE_ANALYSIS_BATCH_SIZE)
       IN  /\ attempts' = Append(attempts,
                  [adapter |-> adapter, ok |-> r.ok, value |-> r.value, at |-> idx])
           /\ IF r.ok
                 THEN /\ results' = results \o r.value
                      /\ idx' = idx + size
                      /\ chainPc' = "loop"
              ELSE IF chainPc # "try3"
                 THEN /\ chainPc' = NextTry(chainPc)
                      /\ UNCHANGED << results, idx >>
              ELSE    /\ results' = results \o
                            defaultResult(slice(call.articles, idx, Len(call.articles)))
                      /\ idx' = Len(call.articles)
                      /\ chainPc' = "loop"
    /\ UNCHANGED << env, call, batch, out >>

\* runNewsAnalysisBatch: the adapter awaited in the current try block
\* settles; its value, or after the third failure the default result, is
\* returned to the loop, which pushes it and advances i
NewsAttempt(reply) ==
    /\ call.kind = "news" /\ chainPc \in Tries
    /\ LET adapter == NewsAdapterAt(chainPc)
           r == analyzeNewsWith(adapter, batch, reply)
           size == effectiveBatchSize(env.VITE_ANALYSIS_BATCH_SIZE)
       IN  /\ attempts' = Append(attempts,
                  [adapter |-> adapter, ok |-> r.ok, value |-> r.value, at |-> idx])
           /\ IF r.ok
                 THEN /\ results' = results \o r.value
                      /\ idx' = idx + size
                      /\ chainPc' = "loop"
              ELSE IF chainPc # "try3"
                 THEN /\ chainPc' = NextTry(chainPc)
                      /\ UNCHANGED << results, idx >>
              ELSE    /\ results' = results \o defaultResult(batch)
                      /\ idx' = idx + size
                      /\ chainPc' = "loop"
    /\ UNCHANGED << env, call, batch, out >>

\* generatePriceForecast enters its first try block
ForecastCalled ==
    /\ call.kind = "forecast" /\ chainPc = "called"
    /\ chainPc' = "try1"
    /\ UNCHANGED << env, call, idx, batch, results, attempts, out >>

\* Mutant of ForecastAttempt: the innermost catch returns a flat default
\* forecast.
ForecastAttemptDefaults(reply) ==
    /\ call.kind = "forecast" /\ chainPc \in Tries
    /\ LET adapter == ForecastAdapterAt(chainPc)
           r == generateForecastWith(adapter, reply)
       IN  /\ attempts' = Append(attempts,
                  [adapter |-> adapter, ok |-> r.ok, value |-> r.value, at |-> idx])
           /\ IF r.ok
                 THEN chainPc' = "returned" /\ out' = Returned(r.value)
              ELSE IF chainPc # "try3"
                 THEN chainPc' = NextTry(chainPc) /\ out' = out
              ELSE chainPc' = "returned"
                   /\ out' = Returned([forecast |-> ForecastPoints(ForecastDays),
                                       analysis |-> "no forecast"])
    /\ UNCHANGED << env, call, idx, batch, results >>

\* generatePriceForecast: the adapter awaited in the current try block
\* settles; its value is returned, or after the third failure an error is
\* thrown
ForecastAttempt(reply) ==
    /\ call.kind = "forecast" /\ chainPc \in Tries
    /\ LET adapter == ForecastAdapterAt(chainPc)
           r == generateForecastWith(adapter, reply)
       IN  /\ attempts' = Append(attempts,
                  [adapter |-> adapter, ok |-> r.ok, value |-> r.value, at |-> idx])
           /\ IF r.ok
                 THEN chainPc' = "returned" /\ out' = Returned(r.value)
              ELSE IF chainPc # "try3"
                 THEN chainPc' = NextTry(chainPc) /\ out' = out
              ELSE chainPc' = "thrown"
                   /\ out' = [ok |-> FALSE, value |-> ForecastFailedMessage]
    /\ UNCHANGED << env, call, idx, batch, results >>

ChainNext ==
    \/ /\ UNCHANGED << appVars, mergeVars, pureVars, forecastVars >>
       /\ NextBatch
    \/ /\ UNCHANGED << appVars, mergeVars, pureVars, forecastVars >>
       /\ analyzeNewsReturns
    \/ /\ UNCHANGED << appVars, mergeVars, pureVars, forecastVars >>
       /\ \E reply \in NewsReplies(batch) : NewsAttempt(reply)
    \/ /\ UNCHANGED << appVars, mergeVars, pureVars, forecastVars >>
       /\ ForecastCalled
    \/ /\ UNCHANGED << appVars, mergeVars, pureVars, forecastVars >>
       /\ \E reply \in ForecastReplies : ForecastAttempt(reply)

InitChain == AppInit /\ MergeIdle /\ ChainInit /\ PureIdle /\ ForecastMounted

SpecChain == InitChain /\ [][ChainNext]_vars

FallbackOrder == << "OpenRouter", "Ollama", "Gemini" >>

\* the attempts of log made on the batch that starts at index at
AttemptsAt(log, at) == SelectSeq(log, LAMBDA a : a.at = at)

\* C9: for sentiment analysis and for forecasting alike, the adapter called
\* is the first of OpenRouter, Ollama, Gemini not yet called on this batch
\* (or forecast), every adapter called before it on this batch has failed,
\* a success is returned at once (pushed to the results and the loop moves
\* on to the next batch, or returned as the forecast) and no adapter is
\* called once the call has ended.
C9_FallbackOrderFixed ==
    [][ /\ (chainPc \in {"returned", "thrown"}) => attempts' = attempts
        /\ attempts' # attempts =>
             LET a == attempts'[Len(attempts')]
                 earlier == AttemptsAt(attempts, a.at)
             IN  /\ Len(attempts') = Len(attempts) + 1
                 /\ Len(earlier) < Len(FallbackOrder)
                 /\ a.adapter = FallbackOrder[Len(earlier) + 1]
                 /\ \A k \in DOMAIN earlier : ~earlier[k].ok
                 /\ (a.ok /\ call.kind = "news") =>
                        /\ results' = results \o a.value
                        /\ idx' > idx
                        /\ chainPc' = "loop"
                 /\ (a.ok /\ call.kind = "forecast") =>
                        /\ chainPc' = "returned"
                        /\ out' = [ok |-> TRUE, value |-> a.value]
                 /\ (~a.ok /\ Len(earlier) + 1 < Len(FallbackOrder)) =>
                        /\ chainPc' \in Tries
                        /\ idx' = idx ]_vars

\* two batches of one article: OpenRouter failed and Ollama answered on the
\* first, OpenRouter answered on the second, and analyzeNews has returned
C9_Witness ==
    /\ call.kind = "news" /\ chainPc = "returned"
    /\ Len(attempts) = 3
    /\ attempts[1].adapter = "OpenRouter" /\ ~attempts[1].ok /\ attempts[1].at = 0
    /\ attempts[2].adapter = "Ollama" /\ attempts[2].ok /\ attempts[2].at = 0
    /\ attempts[3].adapter = "OpenRouter" /\ attempts[3].ok /\ attempts[3].at = 1
    /\ out.value = attempts[2].value \o attempts[3].value
    /\ Len(out.value) = 2

\* what the chain returns for articles when every adapter fails
AllFailedResult(articles, summary) ==
    [ k \in DOMAIN articles |->
        [ id |-> articles[k].id, headline |-> articles[k].headline,
          sentiment |-> "Neutral", summary |-> summary ] ]

AllFailed ==
    /\ call.kind = "news" /\ chainPc = "returned"
    /\ call.articles # <<>>
    /\ \A k \in DOMAIN attempts : ~attempts[k].ok

\* C10 as stated: when all three adapters fail on a non-empty article list,
\* the chain returns one entry per article, in input order: the article
\* plus sentiment Neutral and summary "analysis unavailable".
C10_DefaultSummaryUnavailable ==
    AllFailed => out = Returned(AllFailedResult(call.articles, "analysis unavailable"))

\* C10 as amended: when all three adapters fail on a non-empty article
\* list, the chain returns one entry per article, in input order: the
\* article plus sentiment Neutral and summary
\* "AI analysis failed. (Mock summary)".
C10_DefaultResult ==
    AllFailed => out = Returned(AllFailedResult(call.articles, "AI analysis failed. (Mock summary)"))

\* two articles in one batch, three failed adapters, defaults returned
C10_Witness ==
    /\ AllFailed
    /\ Len(call.articles) = 2 /\ Len(batch) = 2
    /\ Len(attempts) = 3
    /\ Len(out.value) = 2
    /\ out.value[1].id = call.articles[1].id /\ out.value[2].id = call.articles[2].id
    /\ \A k \in DOMAIN out.value : out.value[k].sentiment = "Neutral"

\* ------------------------------------------------------------------------
\* SpecChainLive: every awaited adapter call settles
\* ------------------------------------------------------------------------
SpecChainLive == InitChain /\ [][ChainNext]_vars /\ WF_vars(ChainNext)

\* C11: a call of analyzeNews never ends by throwing, and when every adapter
\* call settles it ends by returning a result, whichever adapters fail.
C11_NeverRaises ==
    /\ [](call.kind = "news" => chainPc # "thrown")
    /\ (call.kind = "news") ~> (chainPc = "returned" /\ out.ok)

\* analyzeNews has returned after two batches: all three adapters failed on
\* the first, OpenRouter and Ollama failed on the second
C11_Witness ==
    /\ call.kind = "news" /\ chainPc = "returned" /\ out.ok
    /\ Len(attempts) = 6
    /\ \A k \in 1..5 : ~attempts[k].ok
    /\ attempts[6].ok /\ attempts[6].adapter = "Gemini"
    /\ Len(out.value) = 2

\* ------------------------------------------------------------------------
\* Properties of forecast generation
\* ------------------------------------------------------------------------
\* C12: when all three adapters have failed on a forecast the call ends by
\* throwing "Failed to generate forecast." and holds no forecast; whenever
\* the call holds a forecast, it is the value of an adapter that succeeded.
C12_ForecastFailsHard ==
    call.kind = "forecast" =>
        /\ (Len(attempts) = 3 /\ \A k \in DOMAIN attempts : ~attempts[k].ok) =>
              /\ chainPc = "thrown"
              /\ out = [ok |-> FALSE, value |-> "Failed to generate forecast."]
        /\ (chainPc = "returned" \/ out.ok) =>
              /\ chainPc = "returned" /\ out.ok
              /\ attempts # <<>>
              /\ attempts[Len(attempts)].ok
              /\ out.value = attempts[Len(attempts)].value
        /\ chainPc = "thrown" => Len(attempts) = 3

\* three adapters were asked for a forecast, all failed, the call threw
C12_Witness ==
    /\ call.kind = "forecast" /\ chainPc = "thrown"
    /\ Len(attempts) = 3
    /\ \A k \in DOMAIN attempts : ~attempts[k].ok
    /\ env.OPENROUTER_API_KEY /\ env.GEMINI_API_KEY
    /\ ~out.ok

\* the forecast object has ForecastDays points and analysis text
WellShaped(body) ==
    /\ DOMAIN body = {"forecast", "analysis"}
    /\ Len(body.forecast) = 7
    /\ body.analysis # ""

\* C13: a forecast the chain returns has exactly 7 points and a non-empty
\* analysis; an adapter whose provider answered with any other shape has
\* failed, and the chain goes on to the next adapter (or, after the third,
\* throws).
C13_ForecastShape ==
    [][ /\ (call.kind = "forecast" /\ out'.ok) => WellShaped(out'.value)
        /\ \A reply \in ForecastReplies :
              (ForecastAttempt(reply) /\ reply.ok /\ ~WellShaped(reply.body)) =>
                  /\ ~attempts'[Len(attempts')].ok
                  /\ ~out'.ok
                  /\ chainPc' = IF chainPc = "try1" THEN "try2"
                                ELSE IF chainPc = "try2" THEN "try3"
                                ELSE "thrown" ]_vars

\* with both keys set OpenRouter and Ollama failed on what their provider
\* answered, and the well-shaped forecast of Gemini was returned
C13_Witness ==
    /\ call.kind = "forecast" /\ chainPc = "returned" /\ out.ok
    /\ env.OPENROUTER_API_KEY /\ env.GEMINI_API_KEY
    /\ Len(attempts) = 3
    /\ ~attempts[1].ok /\ ~attempts[2].ok /\ attempts[3].ok
    /\ Len(out.value.forecast) = 7 /\ out.value.analysis = "up"

\* ------------------------------------------------------------------------
\* Properties of batching and of the adapters' id matching
\* ------------------------------------------------------------------------
BatchSize == effectiveBatchSize(env.VITE_ANALYSIS_BATCH_SIZE)

BatchOf(at) == SubSeq(call.articles, at + 1,
                      IF at + BatchSize < Len(call.articles)
                          THEN at + BatchSize ELSE Len(call.articles))

\* the fallback chain call for the batch that starts at index at has settled
Settled(log, at) ==
    LET made == AttemptsAt(log, at)
    IN  made # <<>> /\ (made[Len(made)].ok \/ Len(made) = 3)

\* what the settled chain call for the batch at index at returned
BatchValue(at) ==
    LET made == AttemptsAt(attempts, at)
    IN  IF made[Len(made)].ok THEN made[Len(made)].value
        ELSE AllFailedResult(BatchOf(at), "AI analysis failed. (Mock summary)")

RECURSIVE ConcatFrom(_)
ConcatFrom(at) ==
    IF at >= Len(call.articles) THEN <<>>
    ELSE BatchValue(at) \o ConcatFrom(at + BatchSize)

PosIn(articles, id) == CHOOSE k \in DOMAIN articles : articles[k].id = id

\* C14: what analyzeNews returns is the concatenation of the batch results
\* in batch order, lists the articles in input order and none of them
\* twice, also when a provider answers a batch of several articles with
\* its items reordered or repeated.
C14_OrderPreserved ==
    (call.kind = "news" /\ chainPc = "returned") =>
        /\ out.value = ConcatFrom(0)
        /\ \A i, j \in DOMAIN out.value :
              i < j => PosIn(call.articles, out.value[i].id) < PosIn(call.articles, out.value[j].id)

\* C15: the batches are handed to the fallback chain one after the other:
\* a batch starts only when the chain call of every earlier batch has
\* settled (by an adapter's success or by the third failure), and every
\* adapter call made belongs to the batch started last.
C15_BatchesSequential ==
    [][ /\ (call.kind = "news" /\ chainPc' = "try1" /\ chainPc # "try1") =>
              \A at \in 0..(idx' - 1) : at % BatchSize = 0 => Settled(attempts, at)
        /\ (call.kind = "news" /\ attempts' # attempts) =>
              /\ attempts'[Len(attempts')].at = idx
              /\ \A at \in 0..(idx - 1) : at % BatchSize = 0 => Settled(attempts, at)
              /\ \A k \in DOMAIN attempts : attempts[k].at <= idx ]_vars

\* the second of two batches is in flight; the first settled degraded
C15_Witness ==
    /\ call.kind = "news" /\ chainPc = "try2"
    /\ BatchSize = 1 /\ idx = 1
    /\ Len(attempts) = 4
    /\ \A k \in 1..3 : attempts[k].at = 0 /\ ~attempts[k].ok
    /\ attempts[4].at = 1

\* the key the adapter requires is set
KeySet(adapter) ==
    CASE adapter = "OpenRouter" -> env.OPENROUTER_API_KEY
      [] adapter = "Ollama"     -> TRUE
      [] adapter = "Gemini"     -> env.GEMINI_API_KEY

IdsOf(seq) == { seq[k].id : k \in DOMAIN seq }

\* C16: every analyzed article an adapter returns carries the id of an
\* article of the batch it was called with, and an answer that names an id
\* which matches no article of the batch does not make the adapter fail:
\* the adapter returns the results whose ids match and drops the others.
C16_IdsMatchInput ==
    [][ \A reply \in NewsReplies(batch) : NewsAttempt(reply) =>
          LET a == attempts'[Len(attempts')]
              matching == SelectSeq(reply.body, LAMBDA r : r.id \in IdsOf(batch))
          IN  /\ a.ok => IdsOf(a.value) \subseteq IdsOf(batch)
              /\ (reply.ok /\ KeySet(a.adapter)) =>
                    /\ a.ok
                    /\ Len(a.value) = Len(matching)
                    /\ \A k \in DOMAIN matching : a.value[k].id = matching[k].id ]_vars

\* an adapter was called with two articles, its provider answered with one
\* of them and an unknown id, and the adapter returned the one
C16_Witness ==
    /\ call.kind = "news" /\ Len(batch) = 2
    /\ Len(attempts) = 1 /\ attempts[1].ok
    /\ Len(attempts[1].value) = 1
    /\ attempts[1].value[1].id = batch[2].id
    /\ results = attempts[1].value

\* ------------------------------------------------------------------------
\* Properties of ticker resolution
\* ------------------------------------------------------------------------
\* this step is a call of handleTickerSubmit whose input resolves to nothing
FailedResolution ==
    \/ \E input \in TypedInputs :
          /\ resolveTicker(input, availableTickers) = None
          /\ SubmitTyped(input)
    \/ \E i \in DOMAIN impactfulAnomalies :
          /\ resolveTicker(replaceMISX(impactfulAnomalies[i].ticker), availableTickers) = None
          /\ AnomalyClick(i)

\* C17: a call of handleTickerSubmit whose input resolves to nothing leaves
\* the session's ticker, company name, price history, articles, status map
\* and polling flag as they were.
C17_FailedResolutionFrame ==
    [][ FailedResolution =>
          /\ ticker' = ticker
          /\ companyName' = companyName
          /\ stockData' = stockData
          /\ newsArticles' = newsArticles
          /\ analysisStatuses' = analysisStatuses
          /\ isAnalyzingNews' = isAnalyzingNews ]_vars

\* ------------------------------------------------------------------------
\* SpecResolve: resolveTicker on drawn inputs and directories
\* ------------------------------------------------------------------------
MaxInputLen == 2

InputChars == {"a", "B", "@", " "}

\* the strings of at most n characters
Inputs(n) == UNION { [1..k -> InputChars] : k \in 0..n }

EntryPool ==
    << [ticker |-> TickerA, company_name |-> <<"A", "b">>],
       [ticker |-> TickerB, company_name |-> <<"a">>],
       [ticker |-> <<"a", "b">>, company_name |-> <<"b", "@">>] >>

\* the directories that list entries of the pool, each at most once, in
\* any order
Directories ==
    { d \in UNION { [1..k -> DOMAIN EntryPool] : k \in 0..Len(EntryPool) } :
        \A i, j \in DOMAIN d : i # j => d[i] # d[j] }

ResolveInit ==
    /\ typed \in Inputs(MaxInputLen)
    /\ directory \in { [k \in DOMAIN d |-> EntryPool[d[k]]] : d \in Directories }
    /\ resolution = NotDone
    /\ projArticles = <<>> /\ projStatuses = EmptyMap /\ projection = NotDone

\* const resolved = resolveTicker(submittedTicker)
Resolve ==
    /\ ~resolution.done
    /\ resolution' = [done |-> TRUE, value |-> resolveTicker(typed, directory)]
    /\ UNCHANGED << typed, directory, projArticles, projStatuses, projection >>

ResolveNext ==
    /\ UNCHANGED << appVars, mergeVars, chainVars, forecastVars >>
    /\ Resolve

InitResolve == AppInit /\ MergeIdle /\ ChainIdle /\ ResolveInit /\ ForecastMounted

SpecResolve == InitResolve /\ [][ResolveNext]_vars

\* s without its leading and trailing spaces
Stripped(s) ==
    LET inked == { i \in DOMAIN s : s[i] # " " }
    IN  IF inked = {} THEN <<>>
        ELSE SubSeq(s, CHOOSE i \in inked : \A j \in inked : i <= j,
                       CHOOSE i \in inked : \A j \in inked : j <= i)

\* entry e satisfies rule 1..4 for the query q, letter case ignored
Satisfies(rule, e, q) ==
    CASE rule = 1 -> toLowerCase(e.ticker) = toLowerCase(q)
      [] rule = 2 -> /\ \A i \in DOMAIN q : q[i] # "@"
                     /\ toLowerCase(e.ticker) = toLowerCase(q \o MISX)
      [] rule = 3 -> toLowerCase(e.company_name) = toLowerCase(q)
      [] rule = 4 -> \E i \in 0..(Len(e.company_name) - Len(q)) :
                        toLowerCase(SubSeq(e.company_name, i + 1, i + Len(q))) = toLowerCase(q)

\* the first entry of dir, in directory order, that satisfies the rule of
\* highest priority satisfied by any entry; None when there is none
ByRules(dir, q) ==
    LET matched == { rule \in 1..4 : \E k \in DOMAIN dir : Satisfies(rule, dir[k], q) }
    IN  IF matched = {} THEN None
        ELSE LET rule == CHOOSE r \in matched : \A r2 \in matched : r <= r2
                 hits == { k \in DOMAIN dir : Satisfies(rule, dir[k], q) }
             IN  << dir[CHOOSE k \in hits : \A k2 \in hits : k <= k2] >>

\* C18 as stated: the resolver returns the first entry matched by the rule
\* of highest priority that the input satisfies for any entry, and
\* not-found exactly when no entry satisfies any rule for the input.
C18_ResolvesByRules ==
    resolution.done => resolution.value = ByRules(directory, typed)

\* C18 as amended: the rules are applied to the input with its leading and
\* trailing whitespace removed, and an input that is empty after that
\* removal resolves to not-found; otherwise as stated.
C18_ResolvesTrimmedByRules ==
    resolution.done =>
        resolution.value = IF Stripped(typed) = <<>> THEN None
                           ELSE ByRules(directory, Stripped(typed))

\* " a" was resolved against a directory that lists the entry named "a"
\* before the entry with ticker A@MISX: the suffix rule won
C18_Witness ==
    /\ resolution.done
    /\ typed = <<" ", "a">>
    /\ Len(directory) = 3
    /\ directory[1].company_name = <<"a">>
    /\ directory[3].ticker = TickerA
    /\ resolution.value = << directory[3] >>

\* ------------------------------------------------------------------------
\* SpecProject: mergeAnalysisResults on drawn articles and status maps
\* ------------------------------------------------------------------------
ProjIds == {"a1", "a2"}

\* what the Job Store can report for an article: pending, failed, completed
\* with sentiment and summary, completed with a sentiment outside the enum,
\* completed without sentiment, with an empty summary, without summary
RawStatuses(id) ==
    { [ article_id |-> id, status |-> st, sentiment |-> Undefined,
        summary |-> Undefined, forTicker |-> TickerA ] : st \in {"pending", "failed"} }
    \cup
    { [ article_id |-> id, status |-> "completed", sentiment |-> se,
        summary |-> su, forTicker |-> TickerA ] :
          se \in {"Positive", "Bullish", Undefined}, su \in {"ok", "", Undefined} }

\* the status maps that hold at most one mapped status per id, under its id
ProjStatusMaps ==
    UNION { { m \in [D -> UNION { { mapRawStatus(raw) : raw \in RawStatuses(id) } : id \in D }] :
                \A id \in D : m[id].articleId = id } : D \in SUBSET ProjIds }

ProjArticleLists ==
    { <<>>,
      << [id |-> "a1", forTicker |-> TickerA] >>,
      << [id |-> "a1", forTicker |-> TickerA], [id |-> "a2", forTicker |-> TickerA] >>,
      << [id |-> "a2", forTicker |-> TickerA], [id |-> "a1", forTicker |-> TickerA] >> }

ProjectInit ==
    /\ typed = <<>> /\ directory = <<>> /\ resolution = NotDone
    /\ projArticles \in ProjArticleLists
    /\ projStatuses \in ProjStatusMaps
    /\ projection = NotDone

\* setAnalyzedNews(mergeAnalysisResults(newsArticles, analysisStatuses))
Project ==
    /\ ~projection.done
    /\ projection' = [done |-> TRUE,
                      value |-> mergeAnalysisResults(projArticles, projStatuses)]
    /\ UNCHANGED << typed, directory, resolution, projArticles, projStatuses >>

ProjectNext ==
    /\ UNCHANGED << appVars, mergeVars, chainVars, forecastVars >>
    /\ Project

InitProject == AppInit /\ MergeIdle /\ ChainIdle /\ ProjectInit /\ ForecastMounted

SpecProject == InitProject /\ [][ProjectNext]_vars

\* the article has a completed status that carries a sentiment of the enum
\* and a non-empty summary
FullyAnalyzed(article) ==
    /\ article.id \in DOMAIN projStatuses
    /\ projStatuses[article.id].status = "completed"
    /\ projStatuses[article.id].sentiment \in {"Positive", "Negative", "Neutral"}
    /\ projStatuses[article.id].summary \notin {Undefined, ""}

\* C19: mergeAnalysisResults returns, in article order, exactly the articles
\* whose status is completed and carries both a sentiment and a summary,
\* each with that sentiment and summary; an article with no entry, pending,
\* failed, or completed without sentiment or summary is absent.
C19_ProjectionComplete ==
    projection.done =>
        LET expected == SelectSeq(projArticles, FullyAnalyzed)
            got == projection.value
        IN  /\ Len(got) = Len(expected)
            /\ \A k \in DOMAIN got :
                  /\ got[k].id = expected[k].id
                  /\ got[k].sentiment = projStatuses[got[k].id].sentiment
                  /\ got[k].summary = projStatuses[got[k].id].summary
                  /\ got[k].sentiment \in {"Positive", "Negative", "Neutral"}
                  /\ got[k].summary # ""

\* a2 then a1 were projected: a1 is fully analyzed and a2 is completed
\* without a summary, so only a1 is in the projection
C19_Witness ==
    /\ projection.done
    /\ Len(projArticles) = 2 /\ projArticles[1].id = "a2"
    /\ DOMAIN projStatuses = {"a1", "a2"}
    /\ projStatuses["a2"].status = "completed"
    /\ projStatuses["a2"].sentiment = "Positive"
    /\ projStatuses["a2"].summary = Undefined
    /\ Len(projection.value) = 1
    /\ projection.value[1].id = "a1"

\* ------------------------------------------------------------------------
\* SpecFetch: the three initial requests may fail
\* ------------------------------------------------------------------------
\* what GET /api/ticker/{ticker}/company can give
CompanyResponses(tk) ==
    { [status |-> "ok", body |-> CompanyInfo(tk)],
      [status |-> "notFound", body |-> NoCompany],
      [status |-> "error", body |-> NoCompany],
      [status |-> "network", body |-> NoCompany] }

\* what GET /api/quotes/{ticker} can give: quotes, a body without quotes,
\* a status that is not ok, no response
StockResponses(tk) ==
    { [status |-> "ok", body |-> [quotes |-> Quotes(tk)]],
      [status |-> "ok", body |-> [ticker |-> tk]],
      [status |-> "error", body |-> [ticker |-> tk]],
      [status |-> "network", body |-> [ticker |-> tk]] }

\* what GET /api/news/ticker/{ticker} can give
NewsResponses(tk) ==
    { [status |-> "ok", body |-> News(tk)],
      [status |-> "ok", body |-> <<>>],
      [status |-> "notFound", body |-> <<>>],
      [status |-> "error", body |-> <<>>],
      [status |-> "network", body |-> <<>>] }

fetchCompanyInfo(response) ==
    IF response.status = "ok" THEN response.body ELSE NoCompany

\* Mutant of fetchStockData: a failed request gives an empty series.
fetchStockDataEmpty(response) ==
    IF response.status = "ok"
    THEN (IF "quotes" \in DOMAIN response.body THEN response.body.quotes ELSE <<>>)
    ELSE <<>>

fetchStockData(response) ==
    IF response.status = "ok"
    THEN (IF "quotes" \in DOMAIN response.body THEN response.body.quotes ELSE <<>>)
    ELSE MockQuotes

fetchRecentNews(response) ==
    IF response.status = "ok" THEN response.body ELSE <<>>

\* Promise.all of the three service calls settles, whatever the requests gave
FetchJoined(s, companyResponse, stockResponse, newsResponse) ==
    FetchSettled(s, fetchCompanyInfo(companyResponse), fetchStockData(stockResponse),
                 fetchRecentNews(newsResponse))

\* The anomaly feed stays empty in this specification, so every submission
\* comes from TickerInput.
NextFetch ==
    \/ /\ UNCHANGED auxVars
       /\ \E input \in TypedInputs : SubmitTyped(input)
    \/ /\ UNCHANGED auxVars
       /\ \E s \in submits :
              \E companyResponse \in CompanyResponses(s.tk),
                 stockResponse \in StockResponses(s.tk),
                 newsResponse \in NewsResponses(s.tk) :
                    FetchJoined(s, companyResponse, stockResponse, newsResponse)
    \/ /\ UNCHANGED auxVars
       /\ \E s \in submits : QueueServed(s)
    \/ /\ UNCHANGED auxVars
       /\ \E s \in submits : QueueSettled(s)
    \/ /\ UNCHANGED auxVars
       /\ \E s \in submits : QueueRejected(s)
    \/ /\ UNCHANGED auxVars
       /\ PollTick
    \/ /\ UNCHANGED auxVars
       /\ \E p \in BagToSet(polls) : PollServed(p)
    \/ /\ UNCHANGED auxVars
       /\ \E p \in BagToSet(polls) : PollSettled(p)
    \/ /\ UNCHANGED auxVars
       /\ \E p \in BagToSet(polls) : PollRejected(p)
    \/ /\ UNCHANGED auxVars
       /\ TickersLoaded(Directory)
    \/ /\ UNCHANGED auxVars
       /\ \E id \in ArticleIds, outcome \in {"completed", "failed"} : JobFinished(id, outcome)

SpecFetch == Init /\ [][NextFetch]_vars

\* what the price request gave when it was answered
QuotesGiven(stockResponse) ==
    IF "quotes" \in DOMAIN stockResponse.body THEN stockResponse.body.quotes ELSE <<>>

\* C20 as stated: when the three initial requests have settled, each field
\* holds what its own request gave, or its empty value when that request
\* failed (no company name, empty price history, empty article list); the
\* loading flag is cleared and no error message is set.
C20_FailureDegradesToEmpty ==
    [][ \A s \in submits :
          \A companyResponse \in CompanyResponses(s.tk),
             stockResponse \in StockResponses(s.tk),
             newsResponse \in NewsResponses(s.tk) :
                FetchJoined(s, companyResponse, stockResponse, newsResponse) =>
                    /\ companyName' = IF companyResponse.status = "ok"
                                      THEN companyResponse.body.company_name ELSE None
                    /\ stockData' = IF stockResponse.status = "ok"
                                    THEN QuotesGiven(stockResponse) ELSE <<>>
                    /\ newsArticles' = IF newsResponse.status = "ok"
                                       THEN newsResponse.body ELSE <<>>
                    /\ ~isLoading'
                    /\ error' = error ]_vars

\* C20 as amended: each field takes what its own request gave; a failed
\* company request leaves the company name as it stands (the name of the
\* resolved directory entry, set at submission), a failed price request
\* gives the generated mock series, a failed or empty article request
\* leaves the article list as it stands (emptied at submission); the
\* loading flag is cleared and no error message is set.
C20_FailureDegradesPerField ==
    [][ \A s \in submits :
          \A companyResponse \in CompanyResponses(s.tk),
             stockResponse \in StockResponses(s.tk),
             newsResponse \in NewsResponses(s.tk) :
                FetchJoined(s, companyResponse, stockResponse, newsResponse) =>
                    /\ companyName' = IF companyResponse.status = "ok"
                                      THEN companyResponse.body.company_name
                                      ELSE companyName
                    /\ stockData' = IF stockResponse.status = "ok"
                                    THEN QuotesGiven(stockResponse) ELSE MockQuotes
                    /\ newsArticles' = IF /\ newsResponse.status = "ok"
                                          /\ Len(newsResponse.body) > 0
                                       THEN newsResponse.body ELSE newsArticles
                    /\ ~isLoading'
                    /\ error' = error ]_vars

\* the company and price requests for A@MISX failed and the article request
\* succeeded: directory name, mock series, the articles, no error
C20_Witness ==
    /\ ticker = TickerA /\ ~isLoading /\ error = Null
    /\ companyName = <<"A", "a">>
    /\ stockData = MockQuotes
    /\ newsArticles = News(TickerA)
    /\ \E s \in submits : s.pc = "queue" /\ s.tk = TickerA

\* ------------------------------------------------------------------------
\* C21: empty input makes no provider call.  analyzeNews called with no
\* article attempts no adapter and returns the empty list, and the chain
\* enters a try block only with a batch that holds at least one article.
\* ------------------------------------------------------------------------
C21_EmptyInputNoCall ==
    /\ (call.kind = "news" /\ call.articles = <<>>) =>
           /\ attempts = <<>>
           /\ chainPc \in {"called", "returned"}
           /\ chainPc = "returned" => out = Returned(<<>>)
    /\ (call.kind = "news" /\ chainPc \in Tries) => Len(batch) > 0
    /\ \A k \in DOMAIN attempts : call.kind = "news" => attempts[k].at < Len(call.articles)

\* analyzeNews([]) has returned
C21_Witness ==
    /\ call.kind = "news" /\ call.articles = <<>>
    /\ chainPc = "returned" /\ out = Returned(<<>>) /\ attempts = <<>>

\* ------------------------------------------------------------------------
\* C22: the effective batch size is an integer >= 1 for every configured
\* value, and 1 when the setting is unset (read as 1), not a number, zero,
\* negative or a fraction below 1; for N articles analyzeNews makes exactly
\* ceil(N / B) fallback chain calls, one per consecutive slice of at most B
\* articles, and then returns.
\* ------------------------------------------------------------------------
Ceil(n, b) == (n + b - 1) \div b

\* the start indexes of the batches the chain was called for
StartsLogged == { attempts[k].at : k \in DOMAIN attempts }

SlicedByBatchSize ==
    LET size == env.VITE_ANALYSIS_BATCH_SIZE
        N == Len(call.articles)
    IN  /\ BatchSize \in Nat /\ BatchSize >= 1
        /\ (~size.finite \/ size.tenths <= 10) => BatchSize = 1
        /\ (size.finite /\ size.tenths >= 10) => BatchSize = size.tenths \div 10
        /\ call.kind = "news" =>
              /\ \A j, k \in DOMAIN attempts : j < k => attempts[j].at <= attempts[k].at
              /\ \A at \in StartsLogged : Len(AttemptsAt(attempts, at)) <= 3
              /\ chainPc \in Tries =>
                    /\ idx % BatchSize = 0
                    /\ batch = BatchOf(idx)
                    /\ Len(batch) >= 1 /\ Len(batch) <= BatchSize
              /\ chainPc = "returned" =>
                    /\ StartsLogged = { i * BatchSize : i \in 0..(Ceil(N, BatchSize) - 1) }
                    /\ Cardinality(StartsLogged) = Ceil(N, BatchSize)

C22_BatchCount ==
    /\ []SlicedByBatchSize
    /\ (call.kind = "news") ~> (call.kind = "news" /\ chainPc = "returned")

\* two articles, the size configured as 0.5: two chain calls, then return
C22_Witness ==
    /\ call.kind = "news" /\ Len(call.articles) = 2
    /\ env.VITE_ANALYSIS_BATCH_SIZE = [finite |-> TRUE, tenths |-> 5]
    /\ chainPc = "returned"
    /\ StartsLogged = {0, 1}

\* ------------------------------------------------------------------------
\* C23: the anomaly feed is polled independently of the ticker session.
\* In every state, whatever the session is doing, a refresh that changes
\* the list can settle; no step of the session writes the anomaly list; and
\* the step that writes it leaves the ticker, the articles, the status map,
\* the polling flag, the suspended polls and the polling interval as they
\* are.
\* ------------------------------------------------------------------------
AnomalyRefresh == AnomaliesLoaded(AnomalyFeed) \/ AnomaliesLoaded(<<>>)

C23_AnomalyFeedIndependent ==
    /\ [](ENABLED AnomalyRefresh)
    /\ [][ impactfulAnomalies' # impactfulAnomalies =>
              /\ AnomalyRefresh
              /\ UNCHANGED << ticker, companyName, stockData, newsArticles,
                              analysisStatuses, isAnalyzingNews, isLoading,
                              error, submits, polls, interval >> ]_vars

\* the feed holds the served list while the session of A@MISX is polling
C23_Witness ==
    /\ ticker = TickerA /\ isAnalyzingNews /\ interval
    /\ polls # EmptyBag
    /\ nSubmits = 1 /\ availableTickers # <<>>
    /\ impactfulAnomalies = AnomalyFeed

\* ------------------------------------------------------------------------
\* ForecastChart (components/ForecastChart.tsx) and the forecast request of
\* services/financialService.ts.  Answers whose forecast array is empty are
\* left out: the render that follows them reads forecast[0].price.
\* ------------------------------------------------------------------------
\* number of forecast requests started in SpecForecast
MaxForecasts == 3

\* What POST /api/forecast/{ticker} can give: no answer, a status that is
\* not ok, a body that is not JSON, JSON without the forecast key, a
\* forecast of ForecastDays points with its analysis, and a forecast of one
\* point without analysis.
ForecastApiResponses ==
    { [status |-> "network", parses |-> FALSE, body |-> [analysis |-> ""]],
      [status |-> "500", parses |-> FALSE, body |-> [analysis |-> ""]],
      [status |-> "404", parses |-> TRUE,  body |-> [analysis |-> ""]],
      [status |-> "ok",  parses |-> FALSE, body |-> [analysis |-> ""]],
      [status |-> "ok",  parses |-> TRUE,  body |-> [analysis |-> "up"]],
      [status |-> "ok",  parses |-> TRUE,
       body |-> [forecast |-> ForecastPoints(ForecastDays), analysis |-> "up"]],
      [status |-> "ok",  parses |-> TRUE,  body |-> [forecast |-> ForecastPoints(1)]] }

Rejected(message) == [ok |-> FALSE, value |-> message]

\* financialService.generatePriceForecast: the catch block rethrows
generatePriceForecast(response) ==
    IF response.status = "network" THEN Rejected("Failed to fetch")
    ELSE IF response.status = "500" THEN Rejected("Forecast API error (500)")
    ELSE IF response.status = "404" THEN Rejected("Forecast API error (404)")
    ELSE IF ~response.parses THEN Rejected("Unexpected token")
    ELSE IF "forecast" \notin DOMAIN response.body
        THEN Rejected("Cannot read properties of undefined (reading 'length')")
    ELSE Returned([ forecast |-> response.body.forecast,
                    analysis |-> IF "analysis" \in DOMAIN response.body
                                     THEN response.body.analysis ELSE Undefined ])

\* the generate button is rendered: !forecastData && !isForecasting
GenerateShown == forecastData = None /\ ~isForecasting

\* handleGenerateForecast up to its await
GenerateClicked ==
    /\ GenerateShown
    /\ nForecasts < MaxForecasts
    /\ isForecasting' = TRUE
    /\ forecastError' = Null
    /\ forecastData' = None
    /\ nForecasts' = nForecasts + 1
    /\ forecastCalls' = forecastCalls \cup { [id |-> nForecasts + 1, mounted |-> TRUE] }

\* Mutant of ForecastSettled: setIsForecasting(false) follows setForecastData
\* in the try block instead of standing in a finally block.
ForecastSettledNoFinally(c, response) ==
    /\ c \in forecastCalls
    /\ forecastCalls' = forecastCalls \ {c}
    /\ UNCHANGED nForecasts
    /\ LET r == generatePriceForecast(response)
       IN  IF ~c.mounted THEN UNCHANGED << forecastData, isForecasting, forecastError >>
           ELSE IF r.ok
                THEN /\ forecastData' = r.value
                     /\ isForecasting' = FALSE
                     /\ UNCHANGED forecastError
                ELSE /\ forecastError' = r.value
                     /\ UNCHANGED << forecastData, isForecasting >>

\* handleGenerateForecast from its await on: try, catch, finally.  The
\* state setters of a chart that was unmounted meanwhile write nothing.
ForecastSettled(c, response) ==
    /\ c \in forecastCalls
    /\ forecastCalls' = forecastCalls \ {c}
    /\ UNCHANGED nForecasts
    /\ LET r == generatePriceForecast(response)
       IN  IF ~c.mounted THEN UNCHANGED << forecastData, isForecasting, forecastError >>
           ELSE /\ IF r.ok
                      THEN forecastData' = r.value /\ UNCHANGED forecastError
                      ELSE forecastError' = r.value /\ UNCHANGED forecastData
                /\ isForecasting' = FALSE

\* App.tsx renders the Dashboard only while !isLoading && !error && ticker
\* && stockData.length > 0: a submission unmounts the chart and the next
\* Dashboard mounts a new one
ChartRemounted ==
    /\ forecastData' = None /\ isForecasting' = FALSE /\ forecastError' = Null
    /\ forecastCalls' = { [c EXCEPT !.mounted = FALSE] : c \in forecastCalls }
    /\ UNCHANGED nForecasts

ForecastNext ==
    \/ /\ UNCHANGED << appVars, mergeVars, chainVars, pureVars >>
       /\ GenerateClicked
    \/ /\ UNCHANGED << appVars, mergeVars, chainVars, pureVars >>
       /\ \E c \in forecastCalls, response \in ForecastApiResponses : ForecastSettled(c, response)
    \/ /\ UNCHANGED << appVars, mergeVars, chainVars, pureVars >>
       /\ ChartRemounted

SpecForecast == Init /\ [][ForecastNext]_vars

\* C24: when the forecast request of the mounted chart fails, the chart is
\* left not forecasting, without forecast, with the failure's message as
\* its error and with the generate button rendered again; a request is
\* started only from a state without forecast and with no request of the
\* chart awaited, so at most one request of the chart is in flight.
C24_ForecastFailureRecovers ==
    /\ [][ \A c \in forecastCalls, response \in ForecastApiResponses :
              (ForecastSettled(c, response) /\ c.mounted
                 /\ ~generatePriceForecast(response).ok) =>
                    /\ ~isForecasting'
                    /\ forecastData' = None
                    /\ forecastError' \in STRING /\ forecastError' # Null
                    /\ forecastError' = generatePriceForecast(response).value
                    /\ GenerateShown' ]_vars
    /\ [][ GenerateClicked =>
              /\ forecastData = None /\ ~isForecasting
              /\ \A c \in forecastCalls : ~c.mounted ]_vars
    /\ [](Cardinality({ c \in forecastCalls : c.mounted }) <= 1)
    /\ [](isForecasting <=> \E c \in forecastCalls : c.mounted)

\* the second request of the chart failed after the first had failed too
C24_Witness ==
    /\ nForecasts = 2 /\ forecastCalls = {}
    /\ ~isForecasting /\ forecastData = None
    /\ forecastError = "Forecast API error (500)"

\* ------------------------------------------------------------------------
\* SpecPolling: the ticker session with submissions that resolve, under the
\* scheduling the runtime gives: a settled promise's continuation runs, the
\* interval fires while it is set, the Job Store's worker finishes every
\* job, and of the status requests sent again and again some are answered.
\* ------------------------------------------------------------------------
FetchJoinedOk ==
    \E s \in submits :
        \E rawNews \in {<<>>, News(s.tk)} :
            FetchSettled(s, CompanyInfo(s.tk), Quotes(s.tk), rawNews)

NextPolling ==
    \/ /\ UNCHANGED auxVars
       /\ \E input \in { t \in TypedInputs : resolveTicker(t, availableTickers) # None } :
              SubmitTyped(input)
    \/ /\ UNCHANGED auxVars
       /\ FetchJoinedOk
    \/ /\ UNCHANGED auxVars
       /\ \E s \in submits : QueueServed(s)
    \/ /\ UNCHANGED auxVars
       /\ \E s \in submits : QueueSettled(s)
    \/ /\ UNCHANGED auxVars
       /\ \E s \in submits : QueueRejected(s)
    \/ /\ UNCHANGED auxVars
       /\ PollTick
    \/ /\ UNCHANGED auxVars
       /\ \E p \in BagToSet(polls) : PollServed(p)
    \/ /\ UNCHANGED auxVars
       /\ \E p \in BagToSet(polls) : PollSettled(p)
    \/ /\ UNCHANGED auxVars
       /\ \E p \in BagToSet(polls) : PollRejected(p)
    \/ /\ UNCHANGED auxVars
       /\ TickersLoaded(Directory)
    \/ /\ UNCHANGED auxVars
       /\ \E id \in ArticleIds, outcome \in {"completed", "failed"} : JobFinished(id, outcome)

SpecPolling ==
    /\ Init /\ [][NextPolling]_vars
    /\ WF_vars(UNCHANGED auxVars /\ FetchJoinedOk)
    /\ WF_vars(UNCHANGED auxVars /\ \E s \in submits : QueueServed(s) \/ QueueRejected(s))
    /\ WF_vars(UNCHANGED auxVars /\ \E s \in submits : QueueSettled(s))
    /\ WF_vars(UNCHANGED auxVars /\ PollTick)
    /\ SF_vars(UNCHANGED auxVars /\ \E p \in BagToSet(polls) : PollServed(p))
    /\ WF_vars(UNCHANGED auxVars /\ \E p \in BagToSet(polls) : PollSettled(p))
    /\ WF_vars(UNCHANGED auxVars /\ \E id \in ArticleIds, outcome \in {"completed", "failed"} :
                                        JobFinished(id, outcome))

\* the reconciler polls: the flag is set and the effect holds its interval
Polling == ticker # None /\ isAnalyzingNews /\ interval

\* the reconciler is Idle and every article of the session has an entry of
\* the status map that is completed or failed
IdleAllTerminal ==
    /\ ~isAnalyzingNews /\ ~interval
    /\ \A i \in DOMAIN newsArticles :
          /\ newsArticles[i].id \in DOMAIN analysisStatuses
          /\ analysisStatuses[newsArticles[i].id].status \in Terminal

\* C25: once the reconciler polls for the n-th submission, then, unless a
\* further submission is made, it eventually is Idle for good with every
\* article of the session completed or failed.
C25_PollingEnds ==
    \A n \in 1..MaxSubmits :
        [](((nSubmits = n) /\ Polling) => <>[]((nSubmits = n) => IdleAllTerminal))

\* the same for the first submission alone: no earlier submission exists
\* whose completion could arrive during the session
C25_FirstSessionPollingEnds ==
    [](((nSubmits = 1) /\ Polling) => <>[]((nSubmits = 1) => IdleAllTerminal))

\* ------------------------------------------------------------------------
\* C26: a merge of the running reconciler turns it Idle exactly when every
\* article of the session has an entry of the merged status map that is
\* completed or failed; an article that has no entry keeps it polling like
\* a pending one.
\* ------------------------------------------------------------------------
AllTerminalIn(articles, map) ==
    \A i \in DOMAIN articles :
        /\ articles[i].id \in DOMAIN map
        /\ map[articles[i].id].status \in Terminal

C26_MissingCountsAsPending ==
    [][ \A p \in BagToSet(polls) :
          (PollSettled(p) /\ ~p.cancelled) =>
              /\ p.articles = newsArticles /\ newsArticles' = newsArticles
              /\ isAnalyzingNews
              /\ ~isAnalyzingNews' <=> AllTerminalIn(newsArticles', analysisStatuses')
              /\ ~isAnalyzingNews' => ~interval' ]_vars

\* a merge has just stopped the polling of A@MISX: a1 and a2 are terminal
C26_Witness ==
    /\ ticker = TickerA /\ idled /\ ~isAnalyzingNews /\ ~interval
    /\ Len(newsArticles) = 2
    /\ AllTerminalIn(newsArticles, analysisStatuses)
    /\ analysisStatuses["a2"].status = "failed"

\* ------------------------------------------------------------------------
\* C27: at most one polling loop of the ticker session exists.  Every
\* status request in flight whose cancelled flag is unset was sent by the
\* effect run for the current ticker and article list, and the interval of
\* that run is the one running; a step that creates the interval for a
\* changed ticker, article list or polling flag leaves exactly the new
\* run's first request uncancelled; when the reconciler is Idle no interval
\* runs and every request in flight is cancelled.
\* ------------------------------------------------------------------------
Live(ps) == { p \in BagToSet(ps) : ~p.cancelled }

OneLoop ==
    /\ \A p \in Live(polls) :
          p.tk = ticker /\ p.articles = newsArticles /\ interval
    /\ interval => (ticker # None /\ isAnalyzingNews /\ Len(newsArticles) > 0)
    /\ ~isAnalyzingNews => (~interval /\ Live(polls) = {})

C27_SinglePollingLoop ==
    /\ []OneLoop
    /\ [][ (/\ interval'
            /\ \/ ticker' # ticker
               \/ newsArticles' # newsArticles
               \/ isAnalyzingNews' # isAnalyzingNews) =>
              /\ Live(polls') = { NewPoll(ticker', newsArticles') }
              /\ CopiesIn(NewPoll(ticker', newsArticles'), polls') = 1
              /\ \A p \in Live(polls) :
                    BagIn([p EXCEPT !.cancelled = TRUE], polls') ]_vars

\* the loop of B has just started while a request of the loop of A@MISX,
\* cancelled by the cleanup, is still in flight
C27_Witness ==
    /\ ticker = TickerB /\ isAnalyzingNews /\ interval
    /\ \E p \in BagToSet(polls) : p.tk = TickerA /\ p.cancelled
    /\ Live(polls) = { NewPoll(TickerB, News(TickerB)) }

\* ------------------------------------------------------------------------
\* C28: the loading flag tracks the latest submission: isLoading holds
\* while the initial requests of the latest submission that resolved a
\* ticker are awaited, and no step of an earlier submission clears it
\* meanwhile.
\* ------------------------------------------------------------------------
LatestFetching == \E s \in submits : s.sid = nSubmits /\ s.pc = "fetch"

C28_LoadingTracksLatest == LatestFetching => isLoading

\* ------------------------------------------------------------------------
\* C29: degradation is per batch.  When analyzeNews has returned, the chain
\* was called for every batch, each call began at OpenRouter, and the
\* result is the concatenation, in batch order, of what each call gave:
\* the value of the adapter that succeeded for the batch, or, when all
\* three failed for it, the default result of that batch's articles only.
\* ------------------------------------------------------------------------
BatchStarts == { at \in 0..(Len(call.articles) - 1) : at % BatchSize = 0 }

C29_DegradationPerBatch ==
    (call.kind = "news" /\ chainPc = "returned") =>
        /\ StartsLogged = BatchStarts
        /\ \A at \in BatchStarts :
              LET made == AttemptsAt(attempts, at)
              IN  /\ made[1].adapter = "OpenRouter"
                  /\ \A k \in 1..(Len(made) - 1) : ~made[k].ok
                  /\ ~made[Len(made)].ok => Len(made) = 3
                  /\ BatchValue(at) =
                        IF made[Len(made)].ok THEN made[Len(made)].value
                        ELSE defaultResult(BatchOf(at))
        /\ out.value = ConcatFrom(0)

\* three batches of one article: Ollama answered the first, all adapters
\* failed for the second, OpenRouter answered the third
C29_Witness ==
    /\ call.kind = "news" /\ chainPc = "returned"
    /\ Len(call.articles) = 3 /\ BatchSize = 1
    /\ Len(attempts) = 6
    /\ attempts[2].ok /\ attempts[2].adapter = "Ollama"
    /\ \A k \in 3..5 : attempts[k].at = 1 /\ ~attempts[k].ok
    /\ attempts[6].ok /\ attempts[6].adapter = "OpenRouter"
    /\ Len(out.value) = 3
    /\ out.value[2] = Analyzed(ChainArticle(2), "Neutral", FailedSummary)
    /\ out.value[1].sentiment = "Positive" /\ out.value[3].sentiment = "Positive"

\* ------------------------------------------------------------------------
\* C30: every analyzed article that analyzeNews returns has a sentiment
\* that is Positive, Negative or Neutral, whichever adapter produced it and
\* whatever sentiment string the provider answered.
\* ------------------------------------------------------------------------
C30_SentimentInEnum ==
    (call.kind = "news" /\ chainPc = "returned") =>
        \A k \in DOMAIN out.value : isSentiment(out.value[k].sentiment)

====
